---- MODULE Spec2Model ----
(***************************************************************************)
(* A model of the AquaBle device core: the UART command codec              *)
(* (commands/encoder.py), the doser configuration sequence                 *)
(* (device/doser.py, commands/ops.py), the connection registry             *)
(* (ble_service.py) and the command execution pipeline                     *)
(* (config/executor.py).                                                   *)
(*                                                                         *)
(* Three specifications share the module:                                  *)
(*   Spec       the command pipeline, the registry and the radio           *)
(*   SpecMsgId  the message id generator iterated from reset_message_id()  *)
(*   SpecCodec  the pure encoders applied to enumerated inputs             *)
(***************************************************************************)
EXTENDS Integers, Sequences, FiniteSets, TLC

VARIABLES
    pc,              \* position of each call slot in its coroutine
    call,            \* the request a slot is serving: kind, address, args
    rec,             \* CommandRecord of the slot's execute_command call
    device_locks,    \* CommandExecutor._device_locks: lock key -> holder (0 free)
    devices,         \* BLEService._devices["doser"]: registered addresses
    addresses,       \* BLEService._addresses["doser"]: primary address
    registry_lock,   \* BLEService._lock: holding slot, 0 when free
    attempt,         \* _ensure_device: resolution attempts already failed
    dose,            \* progress of the slot's Doser.set_daily_dose call
    refresh_address, \* _refresh_device_status: the address it looked up
    tx,              \* the frame written to a device in the current step
    config_save,     \* what the slot's _save_doser_schedule_config call did
    msg_id,          \* the message id counter (hi, lo)
    prev_msg_id,     \* the id msg_id was computed from
    steps,           \* next_message_id calls since the last reset
    codec_in,        \* arguments of the encoder call under test
    codec_out,       \* what that call returned
    reg_devices,     \* BLEService._devices: (kind, address) -> handle, 0 when absent
    reg_addresses,   \* BLEService._addresses: kind -> primary address
    reg_lock,        \* BLEService._lock as the registry calls see it: holder, 0 free
    reg_call,        \* the _ensure_device / disconnect_device call of each caller
    handles,         \* the device objects created so far
    overlap,         \* pairs of calls that were in progress at the same time
    svc,             \* BLEService: settings, start()/stop() position, device files
    task,            \* _discover_task and _reconnect_task, and where each worker is
    dev,             \* per address: the handle's last_status, who asked for and stored a status
    cap_dev,         \* per address: status requests sent and unanswered, and last_status
    cap_call,        \* the _refresh_device_status / connect_device call of each caller
    cap_file         \* per address: the status in the device file

pipeVars == <<pc, call, rec, device_locks, devices, addresses, registry_lock,
              attempt, dose, refresh_address, tx, config_save>>
idVars == <<msg_id, prev_msg_id, steps>>
codecVars == <<codec_in, codec_out>>
regVars == <<reg_devices, reg_addresses, reg_lock, reg_call, handles, overlap>>
svcVars == <<svc, task, dev>>
capVars == <<cap_dev, cap_call, cap_file>>
vars == <<pipeVars, idVars, codecVars, regVars, svcVars, capVars>>

-----------------------------------------------------------------------------
(* Bit operations on naturals, as Python's ^, | and & compute them.        *)

RECURSIVE Xor(_, _)
Xor(a, b) ==
    IF a = 0 THEN b
    ELSE IF b = 0 THEN a
    ELSE 2 * Xor(a \div 2, b \div 2) + ((a + b) % 2)

RECURSIVE BitOr(_, _)
BitOr(a, b) ==
    IF a = 0 THEN b
    ELSE IF b = 0 THEN a
    ELSE 2 * BitOr(a \div 2, b \div 2) + (IF (a % 2) + (b % 2) > 0 THEN 1 ELSE 0)

RECURSIVE BitAnd(_, _)
BitAnd(a, b) ==
    IF a = 0 \/ b = 0 THEN 0
    ELSE 2 * BitAnd(a \div 2, b \div 2) + ((a % 2) * (b % 2))

Range(s) == {s[i] : i \in DOMAIN s}

IsPrefix(s, t) == Len(s) <= Len(t) /\ \A i \in 1..Len(s) : s[i] = t[i]

-----------------------------------------------------------------------------
(* Message ids: commands/encoder.py                                        *)

\* What next_message_id returns where the code raises ValueError.
InvalidMsgId == <<0 - 1, 0 - 1>>

\* A mutant of next_message_id: the wrap restarts at (0, 0).
next_message_id_wrap00(current_msg_id) ==
    LET hi == current_msg_id[1]
        lo == current_msg_id[2]
    IN  IF ~(0 <= hi /\ hi <= 255) \/ ~(0 <= lo /\ lo <= 255) THEN InvalidMsgId
        ELSE IF hi = 90 \/ lo = 90 THEN InvalidMsgId
        ELSE IF lo = 255
             THEN IF hi = 255 THEN <<0, 0>>
                  ELSE IF hi = 89 THEN <<91, 0>>
                  ELSE <<hi + 1, 0>>
             ELSE IF lo = 89 THEN <<hi, 91>>
                  ELSE <<hi, lo + 1>>

\* A mutant of next_message_id: a low byte overflow restarts the low byte at 1.
next_message_id_lo1(current_msg_id) ==
    LET hi == current_msg_id[1]
        lo == current_msg_id[2]
    IN  IF ~(0 <= hi /\ hi <= 255) \/ ~(0 <= lo /\ lo <= 255) THEN InvalidMsgId
        ELSE IF hi = 90 \/ lo = 90 THEN InvalidMsgId
        ELSE IF lo = 255
             THEN IF hi = 255 THEN <<0, 1>>
                  ELSE IF hi = 89 THEN <<91, 1>>
                  ELSE <<hi + 1, 1>>
             ELSE IF lo = 89 THEN <<hi, 91>>
                  ELSE <<hi, lo + 1>>

next_message_id(current_msg_id) ==
    LET hi == current_msg_id[1]
        lo == current_msg_id[2]
    IN  IF ~(0 <= hi /\ hi <= 255) \/ ~(0 <= lo /\ lo <= 255) THEN InvalidMsgId
        ELSE IF hi = 90 \/ lo = 90 THEN InvalidMsgId
        ELSE IF lo = 255
             THEN IF hi = 255 THEN <<0, 1>>
                  ELSE IF hi = 89 THEN <<91, 0>>
                  ELSE <<hi + 1, 0>>
             ELSE IF lo = 89 THEN <<hi, 91>>
                  ELSE <<hi, lo + 1>>

reset_message_id == <<0, 1>>

ValidMsgId(m) ==
    /\ m[1] \in 0..255 /\ m[2] \in 0..255
    /\ m[1] # 90 /\ m[2] # 90

-----------------------------------------------------------------------------
(* Frames: commands/encoder.py                                             *)

RECURSIVE XorAll(_)
XorAll(s) == IF Len(s) = 0 THEN 0 ELSE Xor(s[1], XorAll(Tail(s)))

\* A mutant of calculate_checksum: the leading cmd_id byte is included.
calculate_checksum_all(input_bytes) == XorAll(input_bytes)

\* _calculate_checksum: input_bytes[1] ^ input_bytes[2] ^ ... (0-based), that
\* is every byte but the first.
calculate_checksum(input_bytes) == XorAll(Tail(input_bytes))

sanitize(payload) ==
    [i \in 1..Len(payload) |-> IF payload[i] # 90 THEN payload[i] ELSE 89]

\* A mutant of encode_uart_command: the frame is not rebuilt when the
\* checksum comes out as 0x5A.
encode_uart_command_noretry(cmd_id, mode, m, params) ==
    LET command == <<cmd_id, 1, Len(params) + 5, m[1], m[2], mode>> \o sanitize(params)
    IN  Append(command, calculate_checksum(command))

\* A mutant of encode_uart_command: the frame is rebuilt for every checksum
\* from 88 to 91.
RECURSIVE encode_uart_command_eager(_, _, _, _)
encode_uart_command_eager(cmd_id, mode, m, params) ==
    LET command == <<cmd_id, 1, Len(params) + 5, m[1], m[2], mode>> \o sanitize(params)
        verification_byte == calculate_checksum(command)
    IN  IF verification_byte \in 88..91
        THEN encode_uart_command_eager(cmd_id, mode, next_message_id(m), params)
        ELSE Append(command, verification_byte)

RECURSIVE encode_uart_command(_, _, _, _)
encode_uart_command(cmd_id, mode, m, params) ==
    LET command == <<cmd_id, 1, Len(params) + 5, m[1], m[2], mode>> \o sanitize(params)
        verification_byte == calculate_checksum(command)
    IN  IF verification_byte = 90
        THEN encode_uart_command(cmd_id, mode, next_message_id(m), params)
        ELSE Append(command, verification_byte)

\* The result of a builder that can raise: err is "none" or the exception.
Returned(frame) == [err |-> "none", frame |-> frame]
Raised(e) == [err |-> e, frame |-> <<>>]

\* A mutant of create_head_dose_command: the two-byte mode starts one too late.
create_head_dose_command_off1(m, head_index, volume_tenths_ml, weekday_mask) ==
    IF ~(0 <= volume_tenths_ml /\ volume_tenths_ml <= 65535) THEN Raised("ValueError")
    ELSE IF ~(0 <= weekday_mask /\ weekday_mask <= 127) THEN Raised("ValueError")
    ELSE IF volume_tenths_ml <= 256
    THEN Returned(encode_uart_command(165, 27, m,
            <<head_index, weekday_mask, 1, 1, 0, volume_tenths_ml % 256>>))
    ELSE Returned(encode_uart_command(165, 28, m,
            <<head_index, weekday_mask, 1, 1, 0,
              (volume_tenths_ml \div 256) % 256, volume_tenths_ml % 256>>))

create_head_dose_command(m, head_index, volume_tenths_ml, weekday_mask) ==
    IF ~(0 <= volume_tenths_ml /\ volume_tenths_ml <= 65535) THEN Raised("ValueError")
    ELSE IF ~(0 <= weekday_mask /\ weekday_mask <= 127) THEN Raised("ValueError")
    ELSE IF volume_tenths_ml <= 255
    THEN Returned(encode_uart_command(165, 27, m,
            <<head_index, weekday_mask, 1, 1, 0, volume_tenths_ml>>))
    ELSE Returned(encode_uart_command(165, 28, m,
            <<head_index, weekday_mask, 1, 1, 0,
              (volume_tenths_ml \div 256) % 256, volume_tenths_ml % 256>>))

-----------------------------------------------------------------------------
(* Weekdays: commands/encoder.py                                           *)

DayOrder == <<"monday", "tuesday", "wednesday", "thursday", "friday",
              "saturday", "sunday">>
DayNames == Range(DayOrder)

\* A mutant of WEEKDAY_BIT_VALUES: the table runs sunday = bit 6 ... monday = bit 0.
WEEKDAY_BIT_VALUES_reversed(day) ==
    CASE day = "monday" -> 1
      [] day = "tuesday" -> 2
      [] day = "wednesday" -> 4
      [] day = "thursday" -> 8
      [] day = "friday" -> 16
      [] day = "saturday" -> 32
      [] day = "sunday" -> 64
      [] day = "everyday" -> 127

\* _WEEKDAY_BIT_VALUES, the LightWeekday -> bit table.
WEEKDAY_BIT_VALUES(day) ==
    CASE day = "monday" -> 64
      [] day = "tuesday" -> 32
      [] day = "wednesday" -> 16
      [] day = "thursday" -> 8
      [] day = "friday" -> 4
      [] day = "saturday" -> 2
      [] day = "sunday" -> 1
      [] day = "everyday" -> 127

\* PumpWeekday, the IntFlag: the value of each member.
PumpWeekday(day) ==
    CASE day = "monday" -> 64
      [] day = "tuesday" -> 32
      [] day = "wednesday" -> 16
      [] day = "thursday" -> 8
      [] day = "friday" -> 4
      [] day = "saturday" -> 2
      [] day = "sunday" -> 1
      [] day = "everyday" -> 127

\* The weekdays argument: None, or a list of enum members, each a record
\* [enum |-> "light" | "pump", day |-> name].
WeekdaysNone == [tag |-> "None", days |-> <<>>]
WeekdaysList(days) == [tag |-> "list", days |-> days]

RECURSIVE OrDays(_)
OrDays(days) ==
    IF Len(days) = 0 THEN 0
    ELSE LET d == days[Len(days)]
             bit == IF d.enum = "light" THEN WEEKDAY_BIT_VALUES(d.day)
                    ELSE PumpWeekday(d.day)
         IN  BitOr(OrDays(SubSeq(days, 1, Len(days) - 1)), bit)

\* encode_weekdays: [err, mask].
encode_weekdays(weekdays) ==
    IF weekdays.tag = "None" THEN [err |-> "none", mask |-> 127]
    ELSE IF Len(weekdays.days) = 0 THEN [err |-> "ValueError", mask |-> 0]
    ELSE IF \E i \in DOMAIN weekdays.days : weekdays.days[i].day = "everyday"
    THEN [err |-> "none", mask |-> 127]
    ELSE [err |-> "none", mask |-> OrDays(weekdays.days)]

\* decode_pump_weekdays: the PumpWeekday members of the mask, in enum order.
decode_pump_weekdays(mask) ==
    IF mask = 0 THEN <<>>
    ELSE SelectSeq(DayOrder, LAMBDA d : BitAnd(mask, PumpWeekday(d)) # 0)

-----------------------------------------------------------------------------
(* The command pipeline: config/executor.py, commands/ops.py,              *)
(* device/doser.py and ble_service.py.                                     *)
(*                                                                         *)
(* A slot is one call in progress: an execute_command call (kind           *)
(* "command") or a connect_device call made by the API or by a background  *)
(* worker (kind "connect"). A slot that has returned is free for the next  *)
(* call, so MaxConcurrent bounds the calls in progress, not their number.  *)
(* A step runs one coroutine from one suspension point to the next.        *)

MaxConcurrent == 2
Slots == 1..MaxConcurrent

\* A and B are dosing pumps, L is a light.
Addrs == {"A", "B", "L"}
NoAddr == "none"

\* _get_device_kind of the device that get_device_from_address finds.
get_device_kind(address) == IF address = "L" THEN "light" ELSE "doser"

\* A mutant of max_retries: one attempt more.
max_retries_4 == 3 + 1

\* max_retries of _ensure_device; the retry argument of _send_command.
max_retries == 3
SendRetries == 3

\* What the arguments of a request lead to:
\*   schema_invalid      validate_command_args raises CommandValidationError
\*   unsupported_action  no schema and no branch in _execute_action
\*   bad_prelude         encode_weekdays or create_head_select_command raises
\*   bad_programming     create_head_dose_command or create_head_schedule_command raises
\*   ok                  every builder returns a frame
ArgKinds == {"schema_invalid", "unsupported_action", "bad_prelude", "bad_programming", "ok"}

NoCall == [kind |-> "none", address |-> NoAddr, args |-> "none", confirm |-> FALSE]

\* CommandRecord (commands_model.py): the status, the error kind, and the
\* statuses the record has had, oldest first.
\* `error` is the exception the record's error message was built from.
NoRecord == [status |-> "none", error_kind |-> "none", error |-> "none", trail |-> <<>>]
NewRecord == [status |-> "pending", error_kind |-> "none", error |-> "none",
              trail |-> <<"pending">>]
mark_started(r) == [r EXCEPT !.status = "started", !.trail = Append(@, "started")]
mark_success(r) == [r EXCEPT !.status = "success", !.trail = Append(@, "success")]
mark_timeout(r) == [r EXCEPT !.status = "timeout", !.trail = Append(@, "timeout")]
mark_failed(r, kind) ==
    [r EXCEPT !.status = "failed", !.error_kind = kind, !.trail = Append(@, "failed")]

TerminalStatus == {"success", "failed", "timeout"}

\* A mutant of LockKey: one lock for all addresses.
LockKeyGlobal(t, address) == <<NoAddr, 0>>

\* A mutant of LockKey: every call gets a lock of its own.
LockKeyPerCall(t, address) == <<address, t>>

\* _get_device_lock: the key of the lock a call on `address` takes.
LockKey(t, address) == <<address, 0>>

\* _get_device_lock: the lock is created on first use and kept.
get_device_lock(locks, key) == IF key \in DOMAIN locks THEN locks ELSE (key :> 0) @@ locks

\* A mutant of release_device_lock: the lock stays held.
release_device_lock_kept(locks, t) == locks

\* Releasing whatever device lock the slot holds (the exit of `async with lock`).
release_device_lock(locks, t) == [k \in DOMAIN locks |-> IF locks[k] = t THEN 0 ELSE locks[k]]

\* The HTTPExceptions the action body of set_schedule raises: status code and
\* detail.
HTTPExceptions ==
    {"HTTPException 404 not_found", "HTTPException 400 wrong_type",
     "HTTPException 400 ValueError", "HTTPException 404 not_reachable",
     "HTTPException 400 not_connected", "HTTPException 500 no_status"}

\* A mutant of ExecutorMarks: the inner handler marks an HTTPException
\* before re-raising it to the outer handler.
ExecutorMarksTwice(exc) ==
    CASE exc = "none" -> <<"success">>
      [] exc = "TimeoutError" -> <<"timeout">>
      [] exc \in HTTPExceptions -> <<"internal_error", "internal_error">>
      [] exc = "BleakError" -> <<"ble_connection_error">>
      [] exc = "ValueError" -> <<"invalid_arguments">>
      [] OTHER -> <<"internal_error">>

\* A mutant of ExecutorMarks: an HTTPException is re-raised to the caller and
\* the record is left as it is.
ExecutorMarksReraise(exc) ==
    CASE exc = "none" -> <<"success">>
      [] exc = "TimeoutError" -> <<"timeout">>
      [] exc \in HTTPExceptions -> <<>>
      [] exc = "BleakError" -> <<"ble_connection_error">>
      [] exc = "ValueError" -> <<"invalid_arguments">>
      [] OTHER -> <<"internal_error">>

\* execute_command's handlers: the marks applied to the record, in order, when
\* the action body ends with `exc` ("none": it returned). An HTTPException is
\* re-raised by the inner handler and marked by the outer one.
ExecutorMarks(exc) ==
    CASE exc = "none" -> <<"success">>
      [] exc = "TimeoutError" -> <<"timeout">>
      [] exc \in HTTPExceptions -> <<"internal_error">>
      [] exc = "BleakError" -> <<"ble_connection_error">>
      [] exc = "ValueError" -> <<"invalid_arguments">>
      [] OTHER -> <<"internal_error">>

ApplyMark(r, m) ==
    CASE m = "success" -> mark_success(r)
      [] m = "timeout" -> mark_timeout(r)
      [] OTHER -> mark_failed(r, m)

RECURSIVE ApplyMarks(_, _)
ApplyMarks(r, ms) == IF Len(ms) = 0 THEN r ELSE ApplyMarks(ApplyMark(r, ms[1]), Tail(ms))

\* Doser.set_daily_dose: the frames of the two phases, in the order of the
\* lists it builds.
prelude_commands == <<"handshake", "set_time", "set_time", "prepare_04", "prepare_05", "head_select">>

\* A mutant of programming_commands: the schedule frame is built first.
programming_commands_swapped == <<"head_schedule", "head_dose">>

programming_commands == <<"head_dose", "head_schedule">>

NoDose == [sent |-> <<>>, failedAt |-> 0, result |-> "none"]
NoTx == [dev |-> NoAddr, by |-> 0, frame |-> "none"]

-----------------------------------------------------------------------------
(* Steps of the pipeline.                                                  *)

IsCommand(t) == call[t].kind = "command"
Key(t) == LockKey(t, call[t].address)

\* The action body of a command ends with exception `exc` ("none": it
\* returned): the handlers of execute_command mark the record and the device
\* lock is released, with no suspension point in between. A connect_device
\* call just ends.
Finish(t, exc) ==
    /\ pc' = [pc EXCEPT ![t] = "done"]
    /\ IF IsCommand(t)
       THEN /\ rec' = [rec EXCEPT ![t] =
                         [ApplyMarks(@, ExecutorMarks(exc)) EXCEPT
                            !.error = IF exc = "TimeoutError" THEN "none" ELSE exc]]
            /\ device_locks' = release_device_lock(device_locks, t)
       ELSE UNCHANGED <<rec, device_locks>>

\* A new call is served by the first free slot (slots are interchangeable).
FirstIdle(t) == pc[t] = "idle" /\ \A u \in Slots : u < t => pc[u] # "idle"

\* A mutant of SubmitInvalid: the arguments are validated inside the lock.
SubmitInvalidLocked(t, a) ==
    /\ get_device_lock(device_locks, LockKey(t, a))[LockKey(t, a)] = 0
    /\ call' = [call EXCEPT ![t] =
                  [kind |-> "command", address |-> a, args |-> "schema_invalid", confirm |-> TRUE]]
    /\ rec' = [rec EXCEPT ![t] = mark_failed(mark_started(NewRecord), "validation_error")]
    /\ pc' = [pc EXCEPT ![t] = "done"]
    /\ device_locks' = get_device_lock(device_locks, LockKey(t, a))
    /\ tx' = NoTx
    /\ UNCHANGED <<devices, addresses, registry_lock, attempt, dose, refresh_address>>

\* execute_command, validate_command_args raising: the record is created and
\* marked failed, and the call returns.
SubmitInvalid(t, a) ==
    /\ call' = [call EXCEPT ![t] =
                  [kind |-> "command", address |-> a, args |-> "schema_invalid", confirm |-> TRUE]]
    /\ rec' = [rec EXCEPT ![t] = mark_failed(NewRecord, "validation_error")]
    /\ pc' = [pc EXCEPT ![t] = "done"]
    /\ tx' = NoTx
    /\ UNCHANGED <<device_locks, devices, addresses, registry_lock, attempt, dose,
                   refresh_address>>

\* execute_command with valid arguments, up to its first suspension point:
\* the record is created; a free lock is taken at once and the record marked
\* started, a held lock is waited for.
SubmitValid(t, a, args, confirm) ==
    LET key == LockKey(t, a)
        locks == get_device_lock(device_locks, key)
    IN  /\ call' = [call EXCEPT ![t] =
                      [kind |-> "command", address |-> a, args |-> args, confirm |-> confirm]]
        /\ IF locks[key] = 0
           THEN /\ device_locks' = [locks EXCEPT ![key] = t]
                /\ rec' = [rec EXCEPT ![t] = mark_started(NewRecord)]
                /\ pc' = [pc EXCEPT ![t] = "run"]
           ELSE /\ device_locks' = locks
                /\ rec' = [rec EXCEPT ![t] = NewRecord]
                /\ pc' = [pc EXCEPT ![t] = "waitlock"]
        /\ tx' = NoTx
        /\ UNCHANGED <<devices, addresses, registry_lock, attempt, dose, refresh_address>>

Submit(t) ==
    /\ pc[t] = "idle"
    /\ FirstIdle(t)
    /\ \E a \in Addrs, args \in ArgKinds, confirm \in BOOLEAN :
          \* confirm is read only after the last frame has been sent
          /\ args # "ok" => confirm
          /\ IF args = "schema_invalid"
             THEN SubmitInvalid(t, a)
             ELSE SubmitValid(t, a, args, confirm)
    /\ UNCHANGED <<idVars, codecVars, regVars, svcVars, capVars, config_save>>

\* `async with lock`, after waiting: the lock is taken and the record marked
\* started.
AcquireLock(t) ==
    /\ pc[t] = "waitlock"
    /\ device_locks[Key(t)] = 0
    /\ device_locks' = [device_locks EXCEPT ![Key(t)] = t]
    /\ rec' = [rec EXCEPT ![t] = mark_started(@)]
    /\ pc' = [pc EXCEPT ![t] = "run"]
    /\ tx' = NoTx
    /\ UNCHANGED <<call, devices, addresses, registry_lock, attempt, dose, refresh_address>>
    /\ UNCHANGED <<idVars, codecVars, regVars, svcVars, capVars, config_save>>

\* _execute_action for an action with no branch: ValueError.
Unsupported(t) ==
    /\ pc[t] = "run"
    /\ call[t].args = "unsupported_action"
    /\ Finish(t, "ValueError")
    /\ tx' = NoTx
    /\ UNCHANGED <<call, devices, addresses, registry_lock, attempt, dose, refresh_address>>
    /\ UNCHANGED <<idVars, codecVars, regVars, svcVars, capVars, config_save>>

\* BLEService.connect_device called by the API or by a background worker.
ConnectStart(t) ==
    /\ FirstIdle(t)
    /\ \E a \in Addrs :
          call' = [call EXCEPT ![t] =
                     [kind |-> "connect", address |-> a, args |-> "none", confirm |-> FALSE]]
    /\ pc' = [pc EXCEPT ![t] = "run"]
    /\ tx' = NoTx
    /\ UNCHANGED <<rec, device_locks, devices, addresses, registry_lock, attempt, dose,
                   refresh_address>>
    /\ UNCHANGED <<idVars, codecVars, regVars, svcVars, capVars, config_save>>

\* What follows _ensure_device returning the handle, up to the next
\* suspension point. A command runs Doser.set_daily_dose up to its first
\* _send_command: encode_weekdays and the builders of the prelude, which
\* raise ValueError (set_doser_schedule turns it into an HTTPException)
\* before anything is sent. connect_device goes on to request_status.
AfterEnsure(t) ==
    IF IsCommand(t)
    THEN IF call[t].args = "bad_prelude"
         THEN /\ dose' = [dose EXCEPT ![t] = [sent |-> <<>>, failedAt |-> 0, result |-> "error"]]
              /\ Finish(t, "HTTPException 400 ValueError")
         ELSE /\ dose' = [dose EXCEPT ![t] = [sent |-> <<>>, failedAt |-> 0, result |-> "running"]]
              /\ pc' = [pc EXCEPT ![t] = "send"]
              /\ UNCHANGED <<rec, device_locks>>
    ELSE /\ pc' = [pc EXCEPT ![t] = "conn_send"]
         /\ UNCHANGED <<rec, device_locks, dose>>

\* _ensure_device entering `async with self._lock`: a registered address
\* returns its handle; otherwise the resolution starts, the lock held.
EnsureDevice(t) ==
    /\ pc[t] = "run"
    /\ call[t].args # "unsupported_action"
    /\ registry_lock = 0
    /\ IF call[t].address \in devices
       THEN /\ AfterEnsure(t)
            /\ UNCHANGED <<registry_lock, attempt>>
       ELSE /\ registry_lock' = t
            /\ attempt' = [attempt EXCEPT ![t] = 0]
            /\ pc' = [pc EXCEPT ![t] = "resolve"]
            /\ UNCHANGED <<rec, device_locks, dose>>
    /\ tx' = NoTx
    /\ UNCHANGED <<call, devices, addresses, refresh_address>>
    /\ UNCHANGED <<idVars, codecVars, regVars, svcVars, capVars, config_save>>

\* One get_device_from_address attempt of _ensure_device, with expected kind
\* "doser": a device that is found and is not a doser raises wrong_type and
\* is not stored; the last failed attempt raises not_found.
Resolve(t) ==
    /\ pc[t] = "resolve"
    /\ \E found \in BOOLEAN :
          IF found /\ get_device_kind(call[t].address) # "doser"
          THEN /\ registry_lock' = 0
               /\ attempt' = [attempt EXCEPT ![t] = 0]
               /\ Finish(t, "HTTPException 400 wrong_type")
               /\ UNCHANGED <<devices, addresses, dose>>
          ELSE IF found
          THEN /\ devices' = devices \cup {call[t].address}
               /\ addresses' = call[t].address
               /\ registry_lock' = 0
               /\ attempt' = [attempt EXCEPT ![t] = 0]
               /\ AfterEnsure(t)
          ELSE IF attempt[t] < max_retries - 1
          THEN /\ attempt' = [attempt EXCEPT ![t] = @ + 1]
               /\ pc' = [pc EXCEPT ![t] = "backoff"]
               /\ UNCHANGED <<devices, addresses, registry_lock, rec, device_locks, dose>>
          ELSE /\ registry_lock' = 0
               /\ attempt' = [attempt EXCEPT ![t] = 0]
               /\ Finish(t, "HTTPException 404 not_found")
               /\ UNCHANGED <<devices, addresses, dose>>
    /\ tx' = NoTx
    /\ UNCHANGED <<call, refresh_address>>
    /\ UNCHANGED <<idVars, codecVars, regVars, svcVars, capVars, config_save>>

\* The backoff sleep between two attempts.
Backoff(t) ==
    /\ pc[t] = "backoff"
    /\ pc' = [pc EXCEPT ![t] = "resolve"]
    /\ tx' = NoTx
    /\ UNCHANGED <<call, rec, device_locks, devices, addresses, registry_lock, attempt, dose,
                   refresh_address>>
    /\ UNCHANGED <<idVars, codecVars, regVars, svcVars, capVars, config_save>>

\* The frames Doser.set_daily_dose sends, in order.
DoseFrames == prelude_commands \o programming_commands

\* BaseDevice._send_command(cmd, retry): the write is tried up to `retry`
\* times; `failures` attempts fail. TRUE when the frame went out.
send_command(retry, failures) == failures < retry

\* A mutant of SendFrame: a failed send is skipped and the sequence goes on.
SendFrameResuming(t) ==
    /\ pc[t] = "send"
    /\ LET k == Len(dose[t].sent) + 1
       IN  /\ k < Len(DoseFrames)
           /\ dose' = [dose EXCEPT ![t].sent = Append(@, DoseFrames[k + 1]), ![t].failedAt = k]
           /\ tx' = [dev |-> call[t].address, by |-> t, frame |-> DoseFrames[k + 1]]
    /\ UNCHANGED <<pc, call, rec, device_locks, devices, addresses, registry_lock, attempt,
                   refresh_address>>
    /\ UNCHANGED <<idVars, codecVars, regVars, svcVars, capVars, config_save>>

\* One `await self._send_command(bytes(cmd), 3)` of Doser.set_daily_dose and
\* what follows it up to the next suspension point. After the last prelude
\* frame the programming frames are built, which can raise ValueError; after
\* the last frame the call asks for the status (confirm) or returns.
SendFrame(t) ==
    /\ pc[t] = "send"
    /\ LET k == Len(dose[t].sent) + 1
       IN  \E failures \in 0..SendRetries :
              IF send_command(SendRetries, failures)
              THEN /\ tx' = [dev |-> call[t].address, by |-> t, frame |-> DoseFrames[k]]
                   /\ IF k = Len(prelude_commands) /\ call[t].args = "bad_programming"
                      THEN /\ dose' = [dose EXCEPT ![t].sent = Append(@, DoseFrames[k]),
                                                   ![t].result = "error"]
                           /\ Finish(t, "HTTPException 400 ValueError")
                      ELSE /\ dose' = [dose EXCEPT
                                         ![t].sent = Append(@, DoseFrames[k]),
                                         ![t].result = IF k = Len(DoseFrames) /\ ~call[t].confirm
                                                       THEN "returned" ELSE @]
                           /\ pc' = [pc EXCEPT ![t] =
                                       IF k < Len(DoseFrames) THEN "send"
                                       ELSE IF call[t].confirm THEN "confirm"
                                       ELSE "refresh"]
                           /\ UNCHANGED <<rec, device_locks>>
              ELSE /\ tx' = NoTx
                   /\ dose' = [dose EXCEPT ![t].failedAt = k, ![t].result = "error"]
                   /\ Finish(t, "HTTPException 404 not_reachable")
    /\ UNCHANGED <<call, devices, addresses, registry_lock, attempt, refresh_address>>
    /\ UNCHANGED <<idVars, codecVars, regVars, svcVars, capVars, config_save>>

\* set_daily_dose with confirm: `await self.request_status()`.
ConfirmStatus(t) ==
    /\ pc[t] = "confirm"
    /\ \E failures \in 0..SendRetries :
          IF send_command(SendRetries, failures)
          THEN /\ tx' = [dev |-> call[t].address, by |-> t, frame |-> "handshake"]
               /\ pc' = [pc EXCEPT ![t] = "confirm_sleep"]
               /\ UNCHANGED <<rec, device_locks, dose>>
          ELSE /\ tx' = NoTx
               /\ dose' = [dose EXCEPT ![t].result = "error"]
               /\ Finish(t, "HTTPException 404 not_reachable")
    /\ UNCHANGED <<call, devices, addresses, registry_lock, attempt, refresh_address>>
    /\ UNCHANGED <<idVars, codecVars, regVars, svcVars, capVars, config_save>>

\* set_daily_dose with confirm: the sleep, then it returns the last status.
ConfirmSleep(t) ==
    /\ pc[t] = "confirm_sleep"
    /\ dose' = [dose EXCEPT ![t].result = "returned"]
    /\ pc' = [pc EXCEPT ![t] = "refresh"]
    /\ tx' = NoTx
    /\ UNCHANGED <<call, rec, device_locks, devices, addresses, registry_lock, attempt,
                   refresh_address>>
    /\ UNCHANGED <<idVars, codecVars, regVars, svcVars, capVars, config_save>>

\* _refresh_device_status("doser"), its `async with self._lock` block: the
\* primary address of the kind and its handle are looked up.
RefreshLookup(t) ==
    /\ pc[t] = "refresh"
    /\ registry_lock = 0
    /\ IF addresses = NoAddr \/ addresses \notin devices
       THEN /\ Finish(t, "HTTPException 400 not_connected")
            /\ UNCHANGED refresh_address
       ELSE /\ refresh_address' = [refresh_address EXCEPT ![t] = addresses]
            /\ pc' = [pc EXCEPT ![t] = "refresh_send"]
            /\ UNCHANGED <<rec, device_locks>>
    /\ tx' = NoTx
    /\ UNCHANGED <<call, devices, addresses, registry_lock, attempt, dose>>
    /\ UNCHANGED <<idVars, codecVars, regVars, svcVars, capVars, config_save>>

\* _refresh_device_status: `await device.request_status()` on that handle.
RefreshSend(t) ==
    /\ pc[t] = "refresh_send"
    /\ \E failures \in 0..SendRetries :
          IF send_command(SendRetries, failures)
          THEN /\ tx' = [dev |-> refresh_address[t], by |-> t, frame |-> "handshake"]
               /\ pc' = [pc EXCEPT ![t] = "refresh_sleep"]
               /\ UNCHANGED <<rec, device_locks>>
          ELSE /\ tx' = NoTx
               /\ Finish(t, "HTTPException 404 not_reachable")
    /\ UNCHANGED <<call, devices, addresses, registry_lock, attempt, dose, refresh_address>>
    /\ UNCHANGED <<idVars, codecVars, regVars, svcVars, capVars, config_save>>

\* What _save_doser_schedule_config can do: nothing when auto-save is off,
\* store the configuration, or meet an exception of get_device or
\* upsert_device.
SaveOutcomes == {"skipped", "saved", "raised"}

\* A mutant of save_doser_schedule_config: the exception is not caught.
save_doser_schedule_config_raising(outcome) ==
    IF outcome = "raised" THEN "Exception" ELSE "none"

\* _save_doser_schedule_config: the exception that leaves it ("none": it
\* returns). Whatever the storage raises is logged and not re-raised.
save_doser_schedule_config(outcome) == "none"

\* _refresh_device_status after the capture wait: without a last_status it
\* raises; with one the status is persisted and returned, then
\* _execute_action saves the configuration and the action returns.
RefreshDone(t) ==
    /\ pc[t] = "refresh_sleep"
    /\ \E has_status \in BOOLEAN, outcome \in SaveOutcomes :
          IF has_status
          THEN /\ config_save' = [config_save EXCEPT ![t] = outcome]
               /\ Finish(t, save_doser_schedule_config(outcome))
          ELSE /\ outcome = "skipped"
               /\ Finish(t, "HTTPException 500 no_status")
               /\ UNCHANGED config_save
    /\ tx' = NoTx
    /\ UNCHANGED <<call, devices, addresses, registry_lock, attempt, dose, refresh_address>>
    /\ UNCHANGED <<idVars, codecVars, regVars, svcVars, capVars>>

\* connect_device: `await device.request_status()`.
ConnectSend(t) ==
    /\ pc[t] = "conn_send"
    /\ \E failures \in 0..SendRetries :
          IF send_command(SendRetries, failures)
          THEN /\ tx' = [dev |-> call[t].address, by |-> t, frame |-> "handshake"]
               /\ pc' = [pc EXCEPT ![t] = "conn_sleep"]
          ELSE /\ tx' = NoTx
               /\ pc' = [pc EXCEPT ![t] = "done"]
    /\ UNCHANGED <<call, rec, device_locks, devices, addresses, registry_lock, attempt, dose,
                   refresh_address>>
    /\ UNCHANGED <<idVars, codecVars, regVars, svcVars, capVars, config_save>>

\* connect_device after the capture wait: the status is persisted and returned,
\* or the call raises.
ConnectDone(t) ==
    /\ pc[t] = "conn_sleep"
    /\ pc' = [pc EXCEPT ![t] = "done"]
    /\ tx' = NoTx
    /\ UNCHANGED <<call, rec, device_locks, devices, addresses, registry_lock, attempt, dose,
                   refresh_address>>
    /\ UNCHANGED <<idVars, codecVars, regVars, svcVars, capVars, config_save>>

\* The positions at which the action body of a command is suspended.
SuspensionPoints == {"run", "resolve", "backoff", "send", "confirm", "confirm_sleep",
                     "refresh", "refresh_send", "refresh_sleep"}

\* asyncio.wait_for running out: the action body is cancelled where it is
\* suspended (a registry lock it holds is released by its `async with`), the
\* record is marked timeout and the device lock released.
Timeout(t) ==
    /\ IsCommand(t)
    /\ pc[t] \in SuspensionPoints
    /\ registry_lock' = IF registry_lock = t THEN 0 ELSE registry_lock
    /\ dose' = [dose EXCEPT ![t].result = IF @ = "running" THEN "cancelled" ELSE @]
    /\ attempt' = [attempt EXCEPT ![t] = 0]
    /\ Finish(t, "TimeoutError")
    /\ tx' = NoTx
    /\ UNCHANGED <<call, devices, addresses, refresh_address>>
    /\ UNCHANGED <<idVars, codecVars, regVars, svcVars, capVars, config_save>>

\* The call has returned to its caller; the slot serves the next call.
Return(t) ==
    /\ pc[t] = "done"
    /\ pc' = [pc EXCEPT ![t] = "idle"]
    /\ call' = [call EXCEPT ![t] = NoCall]
    /\ rec' = [rec EXCEPT ![t] = NoRecord]
    /\ dose' = [dose EXCEPT ![t] = NoDose]
    /\ attempt' = [attempt EXCEPT ![t] = 0]
    /\ refresh_address' = [refresh_address EXCEPT ![t] = NoAddr]
    /\ tx' = NoTx
    /\ config_save' = [config_save EXCEPT ![t] = "none"]
    /\ UNCHANGED <<device_locks, devices, addresses, registry_lock>>
    /\ UNCHANGED <<idVars, codecVars, regVars, svcVars, capVars>>

PipeInit ==
    /\ pc = [t \in Slots |-> "idle"]
    /\ call = [t \in Slots |-> NoCall]
    /\ rec = [t \in Slots |-> NoRecord]
    /\ device_locks = <<>>
    /\ devices = {}
    /\ addresses = NoAddr
    /\ registry_lock = 0
    /\ attempt = [t \in Slots |-> 0]
    /\ dose = [t \in Slots |-> NoDose]
    /\ refresh_address = [t \in Slots |-> NoAddr]
    /\ tx = NoTx
    /\ config_save = [t \in Slots |-> "none"]

IdInit ==
    /\ msg_id = reset_message_id
    /\ prev_msg_id = InvalidMsgId
    /\ steps = 0

NoCodecCall == [op |-> "none"]

CodecInit ==
    /\ codec_in = NoCodecCall
    /\ codec_out = NoCodecCall

-----------------------------------------------------------------------------
(* The device registry: BLEService._ensure_device and disconnect_device,   *)
(* with the device objects told apart. A caller is one call in progress;   *)
(* connect_device and every command helper enter the registry through      *)
(* _ensure_device.                                                         *)

MaxCallers == 2
Callers == 1..MaxCallers
MaxHandles == 2

\* Two dosing pumps: two addresses of one kind.
RegAddrs == {"A", "B"}
Kinds == {"doser", "light"}

\* device_type of a call: a kind, or "none" when the caller gives none.
ExpectedKinds == Kinds \cup {"none"}

NoRegCall ==
    [op |-> "none", address |-> NoAddr, expected_kind |-> "none", pc |-> "idle",
     resolutions |-> 0, failures |-> 0, registered_at_entry |-> 0,
     created |-> 0, result |-> "none", handle |-> 0, disturbed |-> FALSE]

\* A device object: model_class(ble_dev) of get_device_from_address.
NewHandle(address, state) ==
    [address |-> address, kind |-> get_device_kind(address), state |-> state]

InProgress(u) == reg_call[u].pc \notin {"idle", "done"}

\* The handle registered for the address under any kind, 0 when there is none.
RegisteredFor(address) == reg_devices[<<get_device_kind(address), address>>]

\* The calls on `address` other than t are marked: a disconnect, or an ensure
\* without an expected kind, removed or replaced its registration under them.
Disturb(calls, t, address) ==
    [u \in Callers |->
        IF u # t /\ calls[u].address = address THEN [calls[u] EXCEPT !.disturbed = TRUE]
        ELSE calls[u]]

RegInit ==
    /\ reg_devices = [p \in Kinds \X RegAddrs |-> 0]
    /\ reg_addresses = [k \in Kinds |-> NoAddr]
    /\ reg_lock = 0
    /\ reg_call = [t \in Callers |-> NoRegCall]
    /\ handles = <<>>
    /\ overlap = {}

\* A new call is served by the first free caller (callers are interchangeable).
FirstFree(t) ==
    reg_call[t].pc = "idle" /\ \A u \in Callers : u < t => reg_call[u].pc # "idle"

\* _ensure_device(address, device_type) is called.
CallEnsure(t) ==
    /\ FirstFree(t)
    /\ \E a \in RegAddrs, k \in ExpectedKinds :
          reg_call' = [reg_call EXCEPT ![t] =
                         [NoRegCall EXCEPT !.op = "ensure", !.address = a,
                                           !.expected_kind = k, !.pc = "enter"]]
    /\ overlap' = overlap \cup {{t, u} : u \in {v \in Callers : v # t /\ InProgress(v)}}
    /\ UNCHANGED <<reg_devices, reg_addresses, reg_lock, handles>>
    /\ UNCHANGED <<pipeVars, idVars, codecVars, svcVars, capVars>>

\* A mutant of EnterEnsure: the registry lock is not waited for.
EnterEnsureUnlocked(t) ==
    /\ reg_call[t].pc = "enter"
    /\ LET c == reg_call[t]
           current_device == IF c.expected_kind = "none" THEN 0
                             ELSE reg_devices[<<c.expected_kind, c.address>>]
       IN  IF current_device # 0
           THEN /\ reg_call' = [reg_call EXCEPT ![t].pc = "done", ![t].result = "handle",
                                                ![t].handle = current_device]
                /\ UNCHANGED reg_lock
           ELSE /\ reg_call' = [reg_call EXCEPT ![t].pc = "resolve"]
                /\ reg_lock' = t
    /\ UNCHANGED <<reg_devices, reg_addresses, handles, overlap>>
    /\ UNCHANGED <<pipeVars, idVars, codecVars, svcVars, capVars>>

\* _ensure_device entering `async with self._lock`: with an expected kind, the
\* handle registered under that kind for the address is returned; otherwise,
\* and always without an expected kind, the resolution starts, the lock held.
EnterEnsure(t) ==
    /\ reg_call[t].pc = "enter"
    /\ reg_lock = 0
    /\ LET c == reg_call[t]
           current_device == IF c.expected_kind = "none" THEN 0
                             ELSE reg_devices[<<c.expected_kind, c.address>>]
           entry == IF c.expected_kind = "none" THEN RegisteredFor(c.address)
                    ELSE current_device
       IN  IF current_device # 0
           THEN /\ reg_call' = [reg_call EXCEPT ![t].pc = "done", ![t].result = "handle",
                                                ![t].handle = current_device,
                                                ![t].registered_at_entry = entry]
                /\ UNCHANGED reg_lock
           ELSE /\ reg_call' = [reg_call EXCEPT ![t].pc = "resolve",
                                                ![t].registered_at_entry = entry]
                /\ reg_lock' = t
    /\ UNCHANGED <<reg_devices, reg_addresses, handles, overlap>>
    /\ UNCHANGED <<pipeVars, idVars, codecVars, svcVars, capVars>>

\* A mutant of ResolveEnsure: the device is stored before its kind is checked.
ResolveEnsureStoreFirst(t) ==
    /\ reg_call[t].pc = "resolve"
    /\ LET c == reg_call[t]
           kind == get_device_kind(c.address)
           h == Len(handles) + 1
           old == reg_devices[<<kind, c.address>>]
       IN  \E found \in BOOLEAN :
              IF found
              THEN /\ Len(handles) < MaxHandles
                   /\ IF c.expected_kind # "none" /\ kind # c.expected_kind
                      THEN /\ handles' = Append(handles, NewHandle(c.address, "created"))
                           /\ reg_call' = [reg_call EXCEPT
                                  ![t].pc = "done", ![t].result = "wrong_type",
                                  ![t].resolutions = @ + 1]
                           /\ reg_devices' = [reg_devices EXCEPT ![<<kind, c.address>>] = h]
                           /\ reg_addresses' = [reg_addresses EXCEPT ![kind] = c.address]
                      ELSE /\ handles' = Append(
                                  IF old = 0 THEN handles
                                  ELSE [handles EXCEPT ![old].state = "replaced"],
                                  NewHandle(c.address, "registered"))
                           /\ reg_devices' = [reg_devices EXCEPT ![<<kind, c.address>>] = h]
                           /\ reg_addresses' = [reg_addresses EXCEPT ![kind] = c.address]
                           /\ reg_call' =
                                 [(IF old # 0 /\ c.expected_kind = "none"
                                   THEN Disturb(reg_call, t, c.address)
                                   ELSE reg_call) EXCEPT
                                  ![t].pc = "done", ![t].result = "handle", ![t].handle = h,
                                  ![t].created = h, ![t].resolutions = @ + 1]
                   /\ reg_lock' = 0
              ELSE /\ IF c.failures < max_retries - 1
                      THEN /\ reg_call' = [reg_call EXCEPT
                                  ![t].pc = "backoff",
                                  ![t].resolutions = @ + 1, ![t].failures = @ + 1]
                           /\ UNCHANGED reg_lock
                      ELSE /\ reg_call' = [reg_call EXCEPT
                                  ![t].pc = "done", ![t].result = "not_found",
                                  ![t].resolutions = @ + 1, ![t].failures = @ + 1]
                           /\ reg_lock' = 0
                   /\ UNCHANGED <<reg_devices, reg_addresses, handles>>
    /\ UNCHANGED overlap
    /\ UNCHANGED <<pipeVars, idVars, codecVars, svcVars, capVars>>

\* One get_device_from_address attempt of _ensure_device; the attempts that
\* failed so far are the loop index. A device that is found is a new object;
\* with the wrong kind it is dropped and the call raises, otherwise it is stored under its kind, over whatever was stored
\* there, and becomes the primary address of the kind. A failed attempt is
\* followed by a backoff, the last one by not_found.
ResolveEnsure(t) ==
    /\ reg_call[t].pc = "resolve"
    /\ LET c == reg_call[t]
           kind == get_device_kind(c.address)
           h == Len(handles) + 1
           old == reg_devices[<<kind, c.address>>]
       IN  \E found \in BOOLEAN :
              IF found
              THEN /\ Len(handles) < MaxHandles
                   /\ IF c.expected_kind # "none" /\ kind # c.expected_kind
                      THEN /\ handles' = Append(handles, NewHandle(c.address, "created"))
                           /\ reg_call' = [reg_call EXCEPT
                                  ![t].pc = "done", ![t].result = "wrong_type",
                                  ![t].resolutions = @ + 1]
                           /\ UNCHANGED <<reg_devices, reg_addresses>>
                      ELSE /\ handles' = Append(
                                  IF old = 0 THEN handles
                                  ELSE [handles EXCEPT ![old].state = "replaced"],
                                  NewHandle(c.address, "registered"))
                           /\ reg_devices' = [reg_devices EXCEPT ![<<kind, c.address>>] = h]
                           /\ reg_addresses' = [reg_addresses EXCEPT ![kind] = c.address]
                           /\ reg_call' =
                                 [(IF old # 0 /\ c.expected_kind = "none"
                                   THEN Disturb(reg_call, t, c.address)
                                   ELSE reg_call) EXCEPT
                                  ![t].pc = "done", ![t].result = "handle", ![t].handle = h,
                                  ![t].created = h, ![t].resolutions = @ + 1]
                   /\ reg_lock' = 0
              ELSE /\ IF c.failures < max_retries - 1
                      THEN /\ reg_call' = [reg_call EXCEPT
                                  ![t].pc = "backoff",
                                  ![t].resolutions = @ + 1, ![t].failures = @ + 1]
                           /\ UNCHANGED reg_lock
                      ELSE /\ reg_call' = [reg_call EXCEPT
                                  ![t].pc = "done", ![t].result = "not_found",
                                  ![t].resolutions = @ + 1, ![t].failures = @ + 1]
                           /\ reg_lock' = 0
                   /\ UNCHANGED <<reg_devices, reg_addresses, handles>>
    /\ UNCHANGED overlap
    /\ UNCHANGED <<pipeVars, idVars, codecVars, svcVars, capVars>>

\* The backoff sleep between two attempts, the lock held.
BackoffEnsure(t) ==
    /\ reg_call[t].pc = "backoff"
    /\ reg_call' = [reg_call EXCEPT ![t].pc = "resolve"]
    /\ UNCHANGED <<reg_devices, reg_addresses, reg_lock, handles, overlap>>
    /\ UNCHANGED <<pipeVars, idVars, codecVars, svcVars, capVars>>

\* The caller's asyncio.wait_for runs out while the call waits for the lock,
\* resolves or sleeps: the call is cancelled and `async with` frees the lock.
CancelEnsure(t) ==
    /\ reg_call[t].pc \in {"enter", "resolve", "backoff"}
    /\ reg_call' = [reg_call EXCEPT ![t].pc = "done", ![t].result = "cancelled"]
    /\ reg_lock' = IF reg_lock = t THEN 0 ELSE reg_lock
    /\ UNCHANGED <<reg_devices, reg_addresses, handles, overlap>>
    /\ UNCHANGED <<pipeVars, idVars, codecVars, svcVars, capVars>>

\* disconnect_device(address) is called.
CallDisconnect(t) ==
    /\ FirstFree(t)
    /\ \E a \in RegAddrs :
          reg_call' = [reg_call EXCEPT ![t] =
                         [NoRegCall EXCEPT !.op = "disconnect", !.address = a,
                                           !.pc = "disconnect_enter"]]
    /\ overlap' = overlap \cup {{t, u} : u \in {v \in Callers : v # t /\ InProgress(v)}}
    /\ UNCHANGED <<reg_devices, reg_addresses, reg_lock, handles>>
    /\ UNCHANGED <<pipeVars, idVars, codecVars, svcVars, capVars>>

\* disconnect_device entering `async with self._lock`: a registered address
\* goes on to `await device.disconnect()`, the lock held; for any other the
\* call returns.
DisconnectEnter(t) ==
    /\ reg_call[t].pc = "disconnect_enter"
    /\ reg_lock = 0
    /\ IF RegisteredFor(reg_call[t].address) # 0
       THEN /\ reg_call' = [reg_call EXCEPT ![t].pc = "disconnecting"]
            /\ reg_lock' = t
       ELSE /\ reg_call' = [reg_call EXCEPT ![t].pc = "done"]
            /\ UNCHANGED reg_lock
    /\ UNCHANGED <<reg_devices, reg_addresses, handles, overlap>>
    /\ UNCHANGED <<pipeVars, idVars, codecVars, svcVars, capVars>>

\* A mutant of DisconnectFinish: the primary address is left as it was.
DisconnectFinishKeepPrimary(t) ==
    /\ reg_call[t].pc = "disconnecting"
    /\ LET a == reg_call[t].address
           kind == get_device_kind(a)
           h == reg_devices[<<kind, a>>]
       IN  /\ handles' = [handles EXCEPT ![h].state = "disconnected"]
           /\ reg_devices' = [reg_devices EXCEPT ![<<kind, a>>] = 0]
           /\ reg_call' = [Disturb(reg_call, t, a) EXCEPT ![t].pc = "done"]
    /\ reg_lock' = 0
    /\ UNCHANGED <<reg_addresses, overlap>>
    /\ UNCHANGED <<pipeVars, idVars, codecVars, svcVars, capVars>>

\* disconnect_device after device.disconnect(): the entry is deleted, and a
\* primary address that was this one moves to another address of the kind or
\* is dropped.
DisconnectFinish(t) ==
    /\ reg_call[t].pc = "disconnecting"
    /\ LET a == reg_call[t].address
           kind == get_device_kind(a)
           h == reg_devices[<<kind, a>>]
           rest == {b \in RegAddrs : b # a /\ reg_devices[<<kind, b>>] # 0}
       IN  /\ handles' = [handles EXCEPT ![h].state = "disconnected"]
           /\ reg_devices' = [reg_devices EXCEPT ![<<kind, a>>] = 0]
           /\ IF reg_addresses[kind] # a THEN UNCHANGED reg_addresses
              ELSE IF rest = {}
              THEN reg_addresses' = [reg_addresses EXCEPT ![kind] = NoAddr]
              ELSE \E b \in rest : reg_addresses' = [reg_addresses EXCEPT ![kind] = b]
           /\ reg_call' = [Disturb(reg_call, t, a) EXCEPT ![t].pc = "done"]
    /\ reg_lock' = 0
    /\ UNCHANGED overlap
    /\ UNCHANGED <<pipeVars, idVars, codecVars, svcVars, capVars>>

\* stop() is called; its part after the background tasks, `async with
\* self._lock`, is about to start.
CallStop(t) ==
    /\ FirstFree(t)
    /\ reg_call' = [reg_call EXCEPT ![t] = [NoRegCall EXCEPT !.op = "stop", !.pc = "stop_enter"]]
    /\ overlap' = overlap \cup {{t, u} : u \in {v \in Callers : v # t /\ InProgress(v)}}
    /\ UNCHANGED <<reg_devices, reg_addresses, reg_lock, handles>>
    /\ UNCHANGED <<pipeVars, idVars, codecVars, svcVars, capVars>>

\* The registered handles stop() has not disconnected yet.
StopPending == {p \in Kinds \X RegAddrs :
                   reg_devices[p] # 0 /\ handles[reg_devices[p]].state # "disconnected"}

\* stop() entering `async with self._lock`.
StopEnter(t) ==
    /\ reg_call[t].pc = "stop_enter"
    /\ reg_lock = 0
    /\ reg_lock' = t
    /\ reg_call' = [reg_call EXCEPT ![t].pc = "stop_disconnect"]
    /\ UNCHANGED <<reg_devices, reg_addresses, handles, overlap>>
    /\ UNCHANGED <<pipeVars, idVars, codecVars, svcVars, capVars>>

\* A mutant of StopStep: the primary addresses are not cleared.
StopStepKeepAddresses(t) ==
    /\ reg_call[t].pc = "stop_disconnect"
    /\ IF StopPending # {}
       THEN /\ \E p \in StopPending :
                  handles' = [handles EXCEPT ![reg_devices[p]].state = "disconnected"]
            /\ UNCHANGED <<reg_devices, reg_addresses, reg_lock, reg_call>>
       ELSE /\ reg_devices' = [p \in Kinds \X RegAddrs |-> 0]
            /\ reg_lock' = 0
            /\ reg_call' = [u \in Callers |->
                              IF u = t THEN [reg_call[t] EXCEPT !.pc = "done"]
                              ELSE [reg_call[u] EXCEPT !.disturbed = TRUE]]
            /\ UNCHANGED <<handles, reg_addresses>>
    /\ UNCHANGED overlap
    /\ UNCHANGED <<pipeVars, idVars, codecVars, svcVars, capVars>>

\* stop(), the lock held: one `await device.disconnect()` of its loop over the
\* registered handles, or, after the last, both maps are cleared and stop()
\* returns.
StopStep(t) ==
    /\ reg_call[t].pc = "stop_disconnect"
    /\ IF StopPending # {}
       THEN /\ \E p \in StopPending :
                  handles' = [handles EXCEPT ![reg_devices[p]].state = "disconnected"]
            /\ UNCHANGED <<reg_devices, reg_addresses, reg_lock, reg_call>>
       ELSE /\ reg_devices' = [p \in Kinds \X RegAddrs |-> 0]
            /\ reg_addresses' = [k \in Kinds |-> NoAddr]
            /\ reg_lock' = 0
            /\ reg_call' = [u \in Callers |->
                              IF u = t THEN [reg_call[t] EXCEPT !.pc = "done"]
                              ELSE [reg_call[u] EXCEPT !.disturbed = TRUE]]
            /\ UNCHANGED handles
    /\ UNCHANGED overlap
    /\ UNCHANGED <<pipeVars, idVars, codecVars, svcVars, capVars>>

\* The task that runs disconnect_device or stop() is cancelled while it waits
\* for the lock or for a device.disconnect(): `async with` frees the lock and
\* the maps stay as they are.
CancelTeardown(t) ==
    /\ reg_call[t].pc \in {"disconnect_enter", "disconnecting", "stop_enter", "stop_disconnect"}
    /\ reg_call' = [reg_call EXCEPT ![t].pc = "done", ![t].result = "cancelled"]
    /\ reg_lock' = IF reg_lock = t THEN 0 ELSE reg_lock
    /\ UNCHANGED <<reg_devices, reg_addresses, handles, overlap>>
    /\ UNCHANGED <<pipeVars, idVars, codecVars, svcVars, capVars>>

\* The call has returned to its caller.
ReturnRegistry(t) ==
    /\ reg_call[t].pc = "done"
    /\ reg_call' = [reg_call EXCEPT ![t] = NoRegCall]
    /\ overlap' = {p \in overlap : t \notin p}
    /\ UNCHANGED <<reg_devices, reg_addresses, reg_lock, handles>>
    /\ UNCHANGED <<pipeVars, idVars, codecVars, svcVars, capVars>>

-----------------------------------------------------------------------------
(* The service: start(), the two background workers, stop().               *)
(* BLEService in ble_service.py, over the registry above.                  *)

Workers == {"discover", "reconnect"}

NoTask == [state |-> "none", pc |-> "none", todo |-> {}, cur |-> NoAddr, cancel |-> FALSE]

SvcInit ==
    /\ svc = [phase |-> "new", auto_discover_on_start |-> FALSE, auto_reconnect |-> FALSE,
              files |-> {}, discover_scheduled |-> FALSE, connected_any |-> FALSE,
              api |-> NoAddr]
    /\ task = [w \in Workers |-> NoTask]
    /\ dev = [a \in RegAddrs |->
                [last_status |-> FALSE, requested_by |-> {}, stored_by |-> {}]]

\* The holder of the registry lock: a worker, stop(), or a request of the API.
LockId(w) ==
    IF w = "discover" THEN 1 ELSE IF w = "reconnect" THEN 2 ELSE IF w = "stop" THEN 3 ELSE 4

\* A mutant of discover_decides: the reconnect task is created whatever the
\* discovery connected.
discover_decides_always(tasks, sv) ==
    IF sv.auto_reconnect /\ tasks["reconnect"].state # "running"
    THEN [tasks EXCEPT !["discover"].state = "done", !["discover"].pc = "none",
                       !["reconnect"] = [NoTask EXCEPT !.state = "running", !.pc = "begin"]]
    ELSE [tasks EXCEPT !["discover"].state = "done", !["discover"].pc = "none"]

\* _auto_discover_worker after _auto_discover_and_connect has returned: with a
\* device connected and a device file present nothing more is done; otherwise,
\* with auto-reconnect on, the reconnect task is created unless one is
\* still running. The worker then ends.
discover_decides(tasks, sv) ==
    IF sv.connected_any /\ sv.files # {}
    THEN [tasks EXCEPT !["discover"].state = "done", !["discover"].pc = "none"]
    ELSE IF sv.auto_reconnect /\ tasks["reconnect"].state # "running"
    THEN [tasks EXCEPT !["discover"].state = "done", !["discover"].pc = "none",
                       !["reconnect"] = [NoTask EXCEPT !.state = "running", !.pc = "begin"]]
    ELSE [tasks EXCEPT !["discover"].state = "done", !["discover"].pc = "none"]

\* A worker at the head of its loop over the devices, up to its next
\* suspension point. With no device left the worker ends (the discover worker
\* decides about the reconnect task first). Otherwise connect_device is
\* called for the next device and _ensure_device runs to its first await: the
\* wait for a held lock, the status request on a registered handle, or the
\* radio resolution of an unregistered address, the lock held.
WorkerContinue(w, tasks, sv) ==
    IF tasks[w].todo = {}
    THEN /\ task' = IF w = "discover" THEN discover_decides(tasks, sv)
                    ELSE [tasks EXCEPT ![w].state = "done", ![w].pc = "none"]
         /\ svc' = sv
         /\ reg_lock' = IF reg_lock = LockId(w) THEN 0 ELSE reg_lock
    ELSE \E a \in tasks[w].todo :
            LET tk == [tasks EXCEPT ![w].todo = @ \ {a}, ![w].cur = a]
                free == reg_lock \in {0, LockId(w)}
            IN  /\ svc' = sv
                /\ IF ~free
                   THEN /\ task' = [tk EXCEPT ![w].pc = "lock_wait"]
                        /\ UNCHANGED reg_lock
                   ELSE IF RegisteredFor(a) # 0
                   THEN /\ task' = [tk EXCEPT ![w].pc = "request"]
                        /\ reg_lock' = 0
                   ELSE /\ task' = [tk EXCEPT ![w].pc = "resolve"]
                        /\ reg_lock' = LockId(w)

Runs(w, at) == task[w].state = "running" /\ task[w].pc = at /\ ~task[w].cancel

\* start(): the settings and the device files are what the environment
\* holds; the discover task is created when there is no device file and
\* auto-discover is on, the reconnect task when auto-reconnect is on and the
\* discover task was not created.
SvcStart ==
    /\ svc.phase = "new"
    /\ \E auto_discover_on_start \in BOOLEAN, auto_reconnect \in BOOLEAN,
          files \in SUBSET RegAddrs :
          LET discover_scheduled == files = {} /\ auto_discover_on_start
          IN  /\ svc' = [svc EXCEPT !.phase = "running",
                                    !.auto_discover_on_start = auto_discover_on_start,
                                    !.auto_reconnect = auto_reconnect,
                                    !.files = files,
                                    !.discover_scheduled = discover_scheduled]
              /\ task' = [task EXCEPT
                    !["discover"] = IF discover_scheduled
                                    THEN [NoTask EXCEPT !.state = "running", !.pc = "scan"]
                                    ELSE NoTask,
                    !["reconnect"] = IF auto_reconnect /\ ~discover_scheduled
                                     THEN [NoTask EXCEPT !.state = "running", !.pc = "begin"]
                                     ELSE NoTask]
    /\ UNCHANGED <<dev, reg_devices, reg_addresses, reg_lock, handles>>
    /\ UNCHANGED <<pipeVars, idVars, codecVars, capVars, reg_call, overlap>>

\* _auto_discover_and_connect: `await discover_supported_devices()` returns
\* the supported devices in range.
DiscoverScan ==
    /\ Runs("discover", "scan")
    /\ \E supported \in SUBSET RegAddrs :
          WorkerContinue("discover", [task EXCEPT !["discover"].todo = supported], svc)
    /\ UNCHANGED <<dev, reg_devices, reg_addresses, handles>>
    /\ UNCHANGED <<pipeVars, idVars, codecVars, capVars, reg_call, overlap>>

\* _reconnect_and_refresh running for the first time: the devices to
\* reconnect are those with a device file.
ReconnectBegin ==
    /\ Runs("reconnect", "begin")
    /\ WorkerContinue("reconnect", [task EXCEPT !["reconnect"].todo = svc.files], svc)
    /\ UNCHANGED <<dev, reg_devices, reg_addresses, handles>>
    /\ UNCHANGED <<pipeVars, idVars, codecVars, capVars, reg_call, overlap>>

\* _ensure_device of a worker's connect_device getting the lock it waited for.
WorkerLock(w) ==
    /\ Runs(w, "lock_wait")
    /\ reg_lock = 0
    /\ IF RegisteredFor(task[w].cur) # 0
       THEN /\ task' = [task EXCEPT ![w].pc = "request"]
            /\ UNCHANGED reg_lock
       ELSE /\ task' = [task EXCEPT ![w].pc = "resolve"]
            /\ reg_lock' = LockId(w)
    /\ UNCHANGED <<svc, dev, reg_devices, reg_addresses, handles>>
    /\ UNCHANGED <<pipeVars, idVars, codecVars, capVars, reg_call, overlap>>

\* The retry loop of _ensure_device for a worker (its attempts are those of
\* ResolveEnsure and BackoffEnsure): the device is found, registered and made
\* primary, or the call raises not_found, which the worker logs before it
\* goes on to its next device.
WorkerResolve(w) ==
    /\ Runs(w, "resolve")
    /\ LET a == task[w].cur
           kind == get_device_kind(a)
       IN  \E found \in BOOLEAN :
              IF found
              THEN /\ handles' = Append(handles, NewHandle(a, "registered"))
                   /\ reg_devices' = [reg_devices EXCEPT ![<<kind, a>>] = Len(handles) + 1]
                   /\ reg_addresses' = [reg_addresses EXCEPT ![kind] = a]
                   /\ reg_lock' = 0
                   /\ task' = [task EXCEPT ![w].pc = "request"]
                   /\ UNCHANGED svc
              ELSE /\ WorkerContinue(w, task, svc)
                   /\ UNCHANGED <<handles, reg_devices, reg_addresses>>
    /\ UNCHANGED dev
    /\ UNCHANGED <<pipeVars, idVars, codecVars, capVars, reg_call, overlap>>

\* connect_device: `await device.request_status()`. The request goes out, or
\* a Bleak error ends the call, which the worker logs before it goes on.
WorkerRequest(w) ==
    /\ Runs(w, "request")
    /\ \E sent \in BOOLEAN :
          IF sent
          THEN /\ dev' = [dev EXCEPT ![task[w].cur].requested_by = @ \cup {w}]
               /\ task' = [task EXCEPT ![w].pc = "capture"]
               /\ UNCHANGED <<svc, reg_lock>>
          ELSE /\ WorkerContinue(w, task, svc)
               /\ UNCHANGED dev
    /\ UNCHANGED <<reg_devices, reg_addresses, handles>>
    /\ UNCHANGED <<pipeVars, idVars, codecVars, capVars, reg_call, overlap>>

\* connect_device after the capture wait: the device has answered or not.
\* Without a last_status the call raises; with one the status is stored in
\* the device file (created when missing) and returned, and the discover
\* worker notes that it connected a device.
WorkerCapture(w) ==
    /\ Runs(w, "capture")
    /\ LET a == task[w].cur
       IN  \E answered \in BOOLEAN :
              IF dev[a].last_status \/ answered
              THEN /\ dev' = [dev EXCEPT ![a].last_status = TRUE,
                                         ![a].stored_by = @ \cup {w}]
                   /\ WorkerContinue(w, task,
                         [svc EXCEPT !.files = @ \cup {a},
                                     !.connected_any = @ \/ w = "discover"])
              ELSE /\ UNCHANGED dev
                   /\ WorkerContinue(w, task, svc)
    /\ UNCHANGED <<reg_devices, reg_addresses, handles>>
    /\ UNCHANGED <<pipeVars, idVars, codecVars, capVars, reg_call, overlap>>

\* task.cancel() taking effect: CancelledError is raised at the await the
\* worker is suspended at, nothing of the worker catches it, `async with`
\* frees a lock it holds, and the task ends cancelled.
WorkerCancelled(w) ==
    /\ task[w].state = "running"
    /\ task[w].cancel
    /\ task' = [task EXCEPT ![w].state = "cancelled", ![w].pc = "none"]
    /\ reg_lock' = IF reg_lock = LockId(w) THEN 0 ELSE reg_lock
    /\ UNCHANGED <<svc, dev, reg_devices, reg_addresses, handles>>
    /\ UNCHANGED <<pipeVars, idVars, codecVars, capVars, reg_call, overlap>>

\* stop() from the point where it has dealt with the reconnect task: a
\* discover task that exists is cancelled and, unless it has ended, awaited.
stop_after_reconnect(tasks) ==
    IF tasks["discover"].state = "running"
    THEN [phase |-> "stop_discover", tasks |-> [tasks EXCEPT !["discover"].cancel = TRUE]]
    ELSE [phase |-> "stop_lock", tasks |-> tasks]

\* A mutant of stop_begin: the reconnect task is neither cancelled nor
\* awaited.
stop_begin_leaving_reconnect(tasks) == stop_after_reconnect(tasks)

\* stop() up to its first suspension point: a reconnect task that exists is
\* cancelled and, unless it has ended, awaited; then the discover task.
stop_begin(tasks) ==
    IF tasks["reconnect"].state = "running"
    THEN [phase |-> "stop_reconnect", tasks |-> [tasks EXCEPT !["reconnect"].cancel = TRUE]]
    ELSE stop_after_reconnect(tasks)

\* stop() is called on the started service.
SvcStop ==
    /\ svc.phase = "running"
    /\ svc' = [svc EXCEPT !.phase = stop_begin(task).phase]
    /\ task' = stop_begin(task).tasks
    /\ UNCHANGED <<dev, reg_devices, reg_addresses, reg_lock, handles>>
    /\ UNCHANGED <<pipeVars, idVars, codecVars, capVars, reg_call, overlap>>

\* stop(): `await self._reconnect_task` returns.
SvcStopReconnectEnded ==
    /\ svc.phase = "stop_reconnect"
    /\ task["reconnect"].state # "running"
    /\ svc' = [svc EXCEPT !.phase = stop_after_reconnect(task).phase]
    /\ task' = stop_after_reconnect(task).tasks
    /\ UNCHANGED <<dev, reg_devices, reg_addresses, reg_lock, handles>>
    /\ UNCHANGED <<pipeVars, idVars, codecVars, capVars, reg_call, overlap>>

\* stop(): `await self._discover_task` returns.
SvcStopDiscoverEnded ==
    /\ svc.phase = "stop_discover"
    /\ task["discover"].state # "running"
    /\ svc' = [svc EXCEPT !.phase = "stop_lock"]
    /\ UNCHANGED <<task, dev, reg_devices, reg_addresses, reg_lock, handles>>
    /\ UNCHANGED <<pipeVars, idVars, codecVars, capVars, reg_call, overlap>>

\* stop() entering `async with self._lock`.
SvcStopLock ==
    /\ svc.phase = "stop_lock"
    /\ reg_lock = 0
    /\ reg_lock' = LockId("stop")
    /\ svc' = [svc EXCEPT !.phase = "stop_devices"]
    /\ UNCHANGED <<task, dev, reg_devices, reg_addresses, handles>>
    /\ UNCHANGED <<pipeVars, idVars, codecVars, capVars, reg_call, overlap>>

\* stop(), the lock held: one `await device.disconnect()` of its loop over the
\* registered handles, or, after the last, both maps are cleared and stop()
\* returns.
SvcStopDevices ==
    /\ svc.phase = "stop_devices"
    /\ IF StopPending # {}
       THEN /\ \E p \in StopPending :
                  handles' = [handles EXCEPT ![reg_devices[p]].state = "disconnected"]
            /\ UNCHANGED <<svc, reg_devices, reg_addresses, reg_lock>>
       ELSE /\ reg_devices' = [p \in Kinds \X RegAddrs |-> 0]
            /\ reg_addresses' = [k \in Kinds |-> NoAddr]
            /\ reg_lock' = 0
            /\ svc' = [svc EXCEPT !.phase = "stopped"]
            /\ UNCHANGED handles
    /\ UNCHANGED <<task, dev>>
    /\ UNCHANGED <<pipeVars, idVars, codecVars, capVars, reg_call, overlap>>

\* A request of the API on the started service reaches _ensure_device for an
\* address that is not registered: the resolution starts, the lock held.
ApiEnsure ==
    /\ svc.phase = "running"
    /\ svc.api = NoAddr
    /\ reg_lock = 0
    /\ \E a \in RegAddrs :
          /\ RegisteredFor(a) = 0
          /\ svc' = [svc EXCEPT !.api = a]
    /\ reg_lock' = LockId("api")
    /\ UNCHANGED <<task, dev, reg_devices, reg_addresses, handles>>
    /\ UNCHANGED <<pipeVars, idVars, codecVars, capVars, reg_call, overlap>>

\* The retry loop of that _ensure_device ends: the device is registered and
\* made primary, or the request fails with not_found.
ApiEnsureDone ==
    /\ svc.api # NoAddr
    /\ LET a == svc.api
           kind == get_device_kind(a)
       IN  \E found \in BOOLEAN :
              IF found
              THEN /\ handles' = Append(handles, NewHandle(a, "registered"))
                   /\ reg_devices' = [reg_devices EXCEPT ![<<kind, a>>] = Len(handles) + 1]
                   /\ reg_addresses' = [reg_addresses EXCEPT ![kind] = a]
              ELSE UNCHANGED <<handles, reg_devices, reg_addresses>>
    /\ svc' = [svc EXCEPT !.api = NoAddr]
    /\ reg_lock' = 0
    /\ UNCHANGED <<task, dev>>
    /\ UNCHANGED <<pipeVars, idVars, codecVars, capVars, reg_call, overlap>>

DiscoverNext ==
    \/ DiscoverScan
    \/ WorkerLock("discover")
    \/ WorkerResolve("discover")
    \/ WorkerRequest("discover")
    \/ WorkerCapture("discover")
    \/ WorkerCancelled("discover")

ReconnectNext ==
    \/ ReconnectBegin
    \/ WorkerLock("reconnect")
    \/ WorkerResolve("reconnect")
    \/ WorkerRequest("reconnect")
    \/ WorkerCapture("reconnect")
    \/ WorkerCancelled("reconnect")

NextService ==
    \/ SvcStart
    \/ DiscoverNext
    \/ ReconnectNext
    \/ SvcStop
    \/ SvcStopReconnectEnded
    \/ SvcStopDiscoverEnded
    \/ SvcStopLock
    \/ SvcStopDevices
    \/ ApiEnsure
    \/ ApiEnsureDone

NextRegistry ==
    \E t \in Callers :
       \/ CallEnsure(t)
       \/ EnterEnsure(t)
       \/ ResolveEnsure(t)
       \/ BackoffEnsure(t)
       \/ CancelEnsure(t)
       \/ CallDisconnect(t)
       \/ DisconnectEnter(t)
       \/ DisconnectFinish(t)
       \/ CallStop(t)
       \/ StopEnter(t)
       \/ StopStep(t)
       \/ CancelTeardown(t)
       \/ ReturnRegistry(t)

-----------------------------------------------------------------------------
(* Status capture: BLEService._refresh_device_status and connect_device    *)
(* asking a handle for its status and reading last_status after the wait.  *)

MaxCapCallers == 2
CapCallers == 1..MaxCapCallers
MaxRequests == 3

\* One handle: every call asks the same device.
CapAddrs == {"A"}

NoCapStatus == [present |-> FALSE, after |-> 0]
NoCapCall == [op |-> "none", pc |-> "idle", address |-> NoAddr, persist |-> FALSE,
              asked |-> 0, err |-> "none", status |-> NoCapStatus]

CapInit ==
    /\ cap_dev = [a \in CapAddrs |-> [requests |-> 0, pending |-> 0, last_status |-> NoCapStatus]]
    /\ cap_call = [c \in CapCallers |-> NoCapCall]
    /\ cap_file = [a \in CapAddrs |-> [present |-> FALSE, after |-> 0, asked |-> 0]]

\* The call ends with the HTTPException `e`.
CapRaise(c, e) == cap_call' = [cap_call EXCEPT ![c].pc = "done", ![c].err = e]

\* _refresh_device_status(kind, persist) up to its request: the primary
\* address of the kind and its handle are looked up; without them the call
\* raises 400.
CapRefresh(c) ==
    /\ cap_call[c].pc = "idle"
    /\ \E a \in CapAddrs, persist \in BOOLEAN, connected \in BOOLEAN :
          cap_call' = [cap_call EXCEPT ![c] =
              IF connected
              THEN [NoCapCall EXCEPT !.op = "refresh", !.pc = "request", !.address = a,
                                     !.persist = persist]
              ELSE [NoCapCall EXCEPT !.op = "refresh", !.pc = "done", !.address = a,
                                     !.err = "HTTPException 400 not_connected"]]
    /\ UNCHANGED <<cap_dev, cap_file>>
    /\ UNCHANGED <<pipeVars, idVars, codecVars, regVars, svcVars>>

\* connect_device(address) up to its request: _ensure_device returns the
\* handle or raises.
CapConnect(c) ==
    /\ cap_call[c].pc = "idle"
    /\ \E a \in CapAddrs, found \in BOOLEAN :
          cap_call' = [cap_call EXCEPT ![c] =
              IF found
              THEN [NoCapCall EXCEPT !.op = "connect", !.pc = "request", !.address = a,
                                     !.persist = TRUE]
              ELSE [NoCapCall EXCEPT !.op = "connect", !.pc = "done", !.address = a,
                                     !.err = "HTTPException 404 not_found"]]
    /\ UNCHANGED <<cap_dev, cap_file>>
    /\ UNCHANGED <<pipeVars, idVars, codecVars, regVars, svcVars>>

\* `await device.request_status()`: the handshake goes out and the device
\* owes an answer, or the write fails and the call raises 404.  asked is the
\* number of this request among those sent to the handle.
CapRequest(c) ==
    /\ cap_call[c].pc = "request"
    /\ LET a == cap_call[c].address
       IN  \E failures \in 0..SendRetries :
              IF send_command(SendRetries, failures)
              THEN /\ cap_dev[a].requests < MaxRequests
                   /\ cap_dev' = [cap_dev EXCEPT ![a].requests = @ + 1, ![a].pending = @ + 1]
                   /\ cap_call' = [cap_call EXCEPT ![c].pc = "sleep",
                                                   ![c].asked = cap_dev[a].requests + 1]
              ELSE /\ CapRaise(c, "HTTPException 404 not_reachable")
                   /\ UNCHANGED cap_dev
    /\ UNCHANGED cap_file
    /\ UNCHANGED <<pipeVars, idVars, codecVars, regVars, svcVars>>

\* The device answers a request it owes an answer to, and the notification
\* handler runs: a payload the decoder accepts replaces last_status by a
\* status that arrived after `requests` requests, any other payload leaves
\* last_status as it was.
CapNotify(a) ==
    /\ cap_dev[a].pending > 0
    /\ \E decoded \in BOOLEAN :
          cap_dev' = [cap_dev EXCEPT
              ![a].pending = @ - 1,
              ![a].last_status = IF decoded
                                 THEN [present |-> TRUE, after |-> cap_dev[a].requests]
                                 ELSE @]
    /\ UNCHANGED <<cap_call, cap_file>>
    /\ UNCHANGED <<pipeVars, idVars, codecVars, regVars, svcVars>>

\* After `await asyncio.sleep(STATUS_CAPTURE_WAIT_SECONDS)`: the call reads
\* device.last_status; without one it raises 500, with one it builds the
\* CachedStatus with updated_at = now, writes it to the device file when it
\* persists, and returns it.
CapDone(c) ==
    /\ cap_call[c].pc = "sleep"
    /\ LET a == cap_call[c].address
           status_obj == cap_dev[a].last_status
       IN  IF ~status_obj.present
           THEN /\ CapRaise(c, "HTTPException 500 no_status")
                /\ UNCHANGED cap_file
           ELSE /\ cap_call' = [cap_call EXCEPT ![c].pc = "done", ![c].status = status_obj]
                /\ cap_file' = IF cap_call[c].persist
                               THEN [cap_file EXCEPT ![a] =
                                        [present |-> TRUE, after |-> status_obj.after,
                                         asked |-> cap_call[c].asked]]
                               ELSE cap_file
    /\ UNCHANGED cap_dev
    /\ UNCHANGED <<pipeVars, idVars, codecVars, regVars, svcVars>>

\* The call has returned to its caller.
CapReturn(c) ==
    /\ cap_call[c].pc = "done"
    /\ cap_call' = [cap_call EXCEPT ![c] = NoCapCall]
    /\ UNCHANGED <<cap_dev, cap_file>>
    /\ UNCHANGED <<pipeVars, idVars, codecVars, regVars, svcVars>>

NextCapture ==
    \/ \E c \in CapCallers :
          \/ CapRefresh(c)
          \/ CapConnect(c)
          \/ CapRequest(c)
          \/ CapDone(c)
          \/ CapReturn(c)
    \/ \E a \in CapAddrs : CapNotify(a)

Init == PipeInit /\ IdInit /\ CodecInit /\ RegInit /\ SvcInit /\ CapInit

Next ==
    \E t \in Slots :
       \/ Submit(t)
       \/ AcquireLock(t)
       \/ Unsupported(t)
       \/ ConnectStart(t)
       \/ EnsureDevice(t)
       \/ Resolve(t)
       \/ Backoff(t)
       \/ SendFrame(t)
       \/ ConfirmStatus(t)
       \/ ConfirmSleep(t)
       \/ RefreshLookup(t)
       \/ RefreshSend(t)
       \/ RefreshDone(t)
       \/ ConnectSend(t)
       \/ ConnectDone(t)
       \/ Timeout(t)
       \/ Return(t)

Spec == Init /\ [][Next]_vars

SpecRegistry == Init /\ [][NextRegistry]_vars

SpecService == Init /\ [][NextService]_vars

SpecCapture == Init /\ [][NextCapture]_vars

\* The event loop runs every task that is ready: a worker that can take a
\* step takes it, a resolution that was started ends, and asyncio.Lock wakes
\* its waiters in turn, so a worker that waits for the lock gets it.
SpecServiceLive ==
    /\ Init /\ [][NextService]_vars
    /\ WF_vars(DiscoverNext)
    /\ WF_vars(ReconnectNext)
    /\ WF_vars(ApiEnsureDone)
    /\ SF_vars(WorkerLock("discover"))
    /\ SF_vars(WorkerLock("reconnect"))

\* asyncio.wait_for cancels an action body that has not ended when the
\* timeout of the command runs out, and asyncio.Lock wakes its waiters in
\* turn, so a command that waits for its device lock gets it.
\* The calls of the liveness check name one pump and the light.
LiveAddrs == {"A", "L"}

NextLive ==
    \E t \in Slots :
       \/ Submit(t) /\ call'[t].address \in LiveAddrs
       \/ AcquireLock(t)
       \/ Unsupported(t)
       \/ ConnectStart(t) /\ call'[t].address \in LiveAddrs
       \/ EnsureDevice(t)
       \/ Resolve(t)
       \/ Backoff(t)
       \/ SendFrame(t)
       \/ ConfirmStatus(t)
       \/ ConfirmSleep(t)
       \/ RefreshLookup(t)
       \/ RefreshSend(t)
       \/ RefreshDone(t)
       \/ ConnectSend(t)
       \/ ConnectDone(t)
       \/ Timeout(t)
       \/ Return(t)

SpecLive ==
    /\ Init /\ [][NextLive]_vars
    /\ \A t \in Slots : WF_vars(Timeout(t)) /\ SF_vars(AcquireLock(t))

-----------------------------------------------------------------------------
(* The message id generator, iterated.                                     *)

MaxSteps == 65100

\* One get_next_msg_id step: the counter moves to next_message_id of itself.
NextMsgId ==
    /\ steps < MaxSteps
    /\ msg_id' = next_message_id(msg_id)
    /\ prev_msg_id' = msg_id
    /\ steps' = steps + 1
    /\ UNCHANGED <<pipeVars, codecVars, regVars, svcVars, capVars>>

\* A new session: reset_message_id().
ResetMsgId ==
    /\ msg_id' = reset_message_id
    /\ prev_msg_id' = InvalidMsgId
    /\ steps' = 0
    /\ UNCHANGED <<pipeVars, codecVars, regVars, svcVars, capVars>>

NextId == NextMsgId \/ ResetMsgId

SpecMsgId == Init /\ [][NextId]_vars

-----------------------------------------------------------------------------
(* The doser notification decoder: storage/models.py, device/doser.py.     *)

\* An absent (None) integer field, and the absent status.
NoneInt == 0 - 1
NoStatus == [present |-> FALSE]

\* A DoserStatus object.
DoserStatus(message_id, response_mode, weekday, hour, minute, heads, tail_targets, tail_flag, tail_raw, lifetime_totals_tenths_ml, raw_payload) ==
    [present |-> TRUE, message_id |-> message_id, response_mode |-> response_mode,
     weekday |-> weekday, hour |-> hour, minute |-> minute, heads |-> heads,
     tail_targets |-> tail_targets, tail_flag |-> tail_flag, tail_raw |-> tail_raw,
     lifetime_totals_tenths_ml |-> lifetime_totals_tenths_ml,
     raw_payload |-> raw_payload]

\* The result of a parser: a status, or the exception it raised.
Parsed(status) == [err |-> "none", status |-> status]
ParseError(e) == [err |-> e, status |-> NoStatus]

\* HeadSnapshot of the 9-byte chunk that starts after offset idx of head_bytes.
HeadSnapshot(head_bytes, idx) ==
    [mode |-> head_bytes[idx + 1], hour |-> head_bytes[idx + 2],
     minute |-> head_bytes[idx + 3], extra |-> SubSeq(head_bytes, idx + 4, idx + 7),
     dosed_tenths_ml |-> head_bytes[idx + 8] * 256 + head_bytes[idx + 9]]

\* _parse_status_payload (mode 0xFE): header, up to four 9-byte heads, 5-byte tail.
parse_status_payload(payload) ==
    IF Len(payload) < 9 \/ payload[1] # 91 THEN ParseError("ValueError")
    ELSE LET body == SubSeq(payload, 10, Len(payload))
             tail_raw == IF Len(body) >= 5 THEN SubSeq(body, Len(body) - 4, Len(body))
                         ELSE <<>>
             head_bytes == IF Len(body) >= 5 THEN SubSeq(body, 1, Len(body) - 5)
                           ELSE body
             nheads == IF Len(head_bytes) \div 9 < 4 THEN Len(head_bytes) \div 9 ELSE 4
         IN  Parsed(DoserStatus(
                 <<payload[4], payload[5]>>, payload[6], payload[7], payload[8],
                 payload[9],
                 [i \in 1..nheads |-> HeadSnapshot(head_bytes, 9 * (i - 1))],
                 IF Len(tail_raw) > 0 THEN SubSeq(tail_raw, 1, 4) ELSE <<>>,
                 IF Len(tail_raw) > 4 THEN tail_raw[5] ELSE NoneInt,
                 tail_raw, <<>>, payload))

\* _parse_lifetime_payload (mode 0x1E): header, then two bytes per head.
parse_lifetime_payload(payload) ==
    IF Len(payload) < 6 \/ payload[1] # 91 THEN ParseError("ValueError")
    ELSE LET lifetime_data == SubSeq(payload, 7, Len(payload))
             num_heads == IF Len(lifetime_data) \div 2 < 4 THEN Len(lifetime_data) \div 2
                          ELSE 4
         IN  Parsed(DoserStatus(
                 <<payload[4], payload[5]>>, payload[6], NoneInt, NoneInt, NoneInt,
                 <<>>, <<>>, NoneInt, <<>>,
                 [i \in 1..num_heads |->
                     lifetime_data[2 * i - 1] * 256 + lifetime_data[2 * i]],
                 payload))

\* parse_doser_payload: dispatch on the response mode, byte 5.
parse_doser_payload(payload) ==
    IF Len(payload) < 6 THEN ParseError("ValueError")
    ELSE IF payload[6] = 254 THEN parse_status_payload(payload)
    ELSE IF payload[6] = 30 THEN parse_lifetime_payload(payload)
    ELSE parse_status_payload(payload)

\* A mutant of handle_notification: a payload that is not decoded clears
\* _last_status.
handle_notification_clearing(last_status, payload) ==
    IF Len(payload) = 0 THEN NoStatus
    ELSE IF payload[1] # 91 \/ Len(payload) < 6 THEN NoStatus
    ELSE IF payload[6] \notin {254, 30} THEN NoStatus
    ELSE parse_doser_payload(payload).status

\* Doser.handle_notification: the value of _last_status afterwards.  It never
\* raises: a payload it rejects, or one the parser raises on, leaves
\* _last_status as it was.
handle_notification(last_status, payload) ==
    IF Len(payload) = 0 THEN last_status
    ELSE IF payload[1] # 91 \/ Len(payload) < 6 THEN last_status
    ELSE IF payload[6] \notin {254, 30} THEN last_status
    ELSE LET parsed == parse_doser_payload(payload)
         IN  IF parsed.err # "none" THEN last_status ELSE parsed.status

-----------------------------------------------------------------------------
(* The stored doser configuration: config/helpers.py, config/executor.py.  *)

\* volume_tenths_ml / 10.0 as whole millilitres and tenths; f"{hour:02d}:{minute:02d}"
\* as its four digits.
TenthsToMl(volume_tenths_ml) == <<volume_tenths_ml \div 10, volume_tenths_ml % 10>>
TimeString(hour, minute) == <<hour \div 10, hour % 10, minute \div 10, minute % 10>>

\* SingleSchedule(mode="single", dailyDoseMl=..., startTime=...).
SingleSchedule(dailyDoseMl, startTime) ==
    [mode |-> "single", dailyDoseMl |-> dailyDoseMl, startTime |-> startTime]

\* A DoserHead of the latest revision, and a DoserDevice as the heads of the
\* latest revision of its active configuration. NoDevice: get_device found
\* nothing.
DoserHead(index, active, schedule, days) ==
    [index |-> index, active |-> active, schedule |-> schedule, recurrence |-> days]
DoserDevice(heads) == [present |-> TRUE, heads |-> heads]
NoDevice == [present |-> FALSE, heads |-> <<>>]

\* create_default_doser_config: four inactive heads, 10.0 ml at 09:00, every day.
create_default_doser_config ==
    DoserDevice([i \in 1..4 |->
        DoserHead(i, FALSE, SingleSchedule(TenthsToMl(100), TimeString(9, 0)), DayOrder)])

\* weekday.name.lower() of each member of the list.
weekday_names(weekdays) == [i \in DOMAIN weekdays.days |-> weekdays.days[i].day]

\* The result of a helper: the device, or the exception raised.
ConfigResult(device) == [err |-> "none", device |-> device]
ConfigError(e) == [err |-> e, device |-> NoDevice]

\* update_doser_schedule_config: the head whose index equals head_index gets
\* the schedule, and the days when a non-empty weekday list is given.
\* SingleSchedule accepts a dailyDoseMl above 0 only.
update_doser_schedule_config(device, args) ==
    IF \A i \in DOMAIN device.heads : device.heads[i].index # args.head_index
    THEN ConfigError("ValueError")
    ELSE IF args.volume_tenths_ml <= 0
    THEN ConfigError("ValidationError")
    ELSE LET target == CHOOSE i \in DOMAIN device.heads :
                          /\ device.heads[i].index = args.head_index
                          /\ \A j \in 1..(i - 1) : device.heads[j].index # args.head_index
             scheduled == [device.heads[target] EXCEPT
                              !.active = TRUE,
                              !.schedule = SingleSchedule(TenthsToMl(args.volume_tenths_ml),
                                                          TimeString(args.hour, args.minute))]
             updated == IF args.weekdays.tag = "list" /\ Len(args.weekdays.days) > 0
                        THEN [scheduled EXCEPT !.recurrence = weekday_names(args.weekdays)]
                        ELSE scheduled
         IN  ConfigResult([device EXCEPT !.heads[target] = updated])

\* create_doser_config_from_command: one head, stored under head_index + 1.
\* DoserHead accepts the indexes 1..4, Recurrence a non-empty list of
\* distinct named days and SingleSchedule a dailyDoseMl above 0.
create_doser_config_from_command(args) ==
    LET names == IF args.weekdays.tag = "list" /\ Len(args.weekdays.days) > 0
                 THEN weekday_names(args.weekdays)
                 ELSE DayOrder
        head_storage_index == args.head_index + 1
    IN  IF \/ head_storage_index \notin 1..4
           \/ args.volume_tenths_ml <= 0
           \/ \E i \in DOMAIN names : names[i] \notin DayNames
           \/ \E i, j \in DOMAIN names : i # j /\ names[i] = names[j]
        THEN ConfigError("ValidationError")
        ELSE ConfigResult(DoserDevice(<<
                 DoserHead(head_storage_index, TRUE,
                           SingleSchedule(TenthsToMl(args.volume_tenths_ml),
                                          TimeString(args.hour, args.minute)),
                           names)>>))

\* _save_doser_schedule_config with auto-save on: what the storage holds for
\* the address afterwards. An exception of a helper is logged and the stored
\* device stays as it was.
doser_storage_after_save(device, args) ==
    LET result == IF device.present THEN update_doser_schedule_config(device, args)
                  ELSE create_doser_config_from_command(args)
    IN  IF result.err = "none" THEN result.device ELSE device

-----------------------------------------------------------------------------
(* The stored light configuration: config/helpers.py, config/executor.py.  *)

\* _time_to_minutes of a time string, given as its four digits.
time_to_minutes(value) == (value[1] * 10 + value[2]) * 60 + value[3] * 10 + value[4]

\* AutoProgram(...): its validator wants at least one day, distinct named
\* days, sunset after sunrise and a ramp that is not negative.
AutoProgram(days, sunrise, sunset, rampMinutes, levels) ==
    IF \/ Len(days) = 0
       \/ \E i \in DOMAIN days : days[i] \notin DayNames
       \/ \E i, j \in DOMAIN days : i # j /\ days[i] = days[j]
       \/ time_to_minutes(sunset) <= time_to_minutes(sunrise)
       \/ rampMinutes < 0
    THEN [err |-> "ValidationError"]
    ELSE [err |-> "none", days |-> days, sunrise |-> sunrise, sunset |-> sunset,
          rampMinutes |-> rampMinutes, levels |-> levels]

\* The profile of the latest revision of the active configuration.
ManualProfile(levels) == [mode |-> "manual", levels |-> levels, programs |-> <<>>]
AutoProfile(programs) == [mode |-> "auto", levels |-> 0, programs |-> programs]

\* add_light_auto_program: the program is appended to an AutoProfile, and
\* replaces any other profile by an AutoProfile of its own.
add_light_auto_program(profile, days, sunrise, sunset, levels, ramp_minutes) ==
    LET program == AutoProgram(days, sunrise, sunset, ramp_minutes, levels)
    IN  IF program.err # "none" THEN [err |-> program.err, profile |-> profile]
        ELSE IF profile.mode = "auto"
        THEN [err |-> "none", profile |-> AutoProfile(Append(profile.programs, program))]
        ELSE [err |-> "none", profile |-> AutoProfile(<<program>>)]

\* _execute_action, add_auto_setting: the brightness handed to the device is
\* `brightness or channels`; with neither the action raises ValueError.
auto_setting_brightness_arg(args) ==
    IF args.brightness # NoneInt /\ args.brightness # 0 THEN "brightness"
    ELSE IF args.channels THEN "channels"
    ELSE "ValueError"

\* _save_light_auto_setting_config for a light that has a stored
\* configuration, with auto-save on: the stored profile afterwards. Without
\* `brightness`, without cached channels, or when the program is rejected,
\* nothing is stored: the exception is logged and swallowed.
light_profile_after_save(profile, args, channels_cached) ==
    IF args.brightness = NoneInt \/ ~channels_cached THEN profile
    ELSE LET weekdays == IF args.weekdays.tag = "None" THEN DayOrder
                         ELSE weekday_names(args.weekdays)
             result == add_light_auto_program(profile, weekdays, args.sunrise, args.sunset,
                                              args.brightness, args.ramp_up_minutes)
         IN  IF result.err = "none" THEN result.profile ELSE profile

-----------------------------------------------------------------------------
(* The encoders, applied to enumerated arguments.                          *)

Reverse(s) == [i \in 1..Len(s) |-> s[Len(s) + 1 - i]]
SetToSeq(S) == SelectSeq(DayOrder, LAMBDA d : d \in S)
Members(enum, names) == [i \in 1..Len(names) |-> [enum |-> enum, day |-> names[i]]]

TestCmdIds == {90, 165}
TestModes == {4, 27}
TestMsgIds ==
    {<<hi, lo>> : hi \in {0, 89, 127, 255}, lo \in (0..255) \ {90}}
    \cup {<<hi, lo>> : hi \in (0..255) \ {90}, lo \in {89, 254, 255}}
TestParams == {<<1>>, <<90>>, <<89>>, <<217>>, <<255>>, <<0, 84, 1, 1, 0, 55>>,
               <<3, 0, 10, 30, 0, 0>>}

TestHeads == {0, 3}
TestVolumes == ((0 - 1)..300) \cup {346, 23040, 23130, 65535, 65536}
TestMasks == {0 - 1, 0, 84, 90, 127, 128}
TestDoseMsgIds == {<<0, 1>>, <<12, 34>>}

TestWeekdays ==
    {WeekdaysNone}
    \cup {WeekdaysList(Members(e, SetToSeq(S))) : e \in {"light", "pump"}, S \in SUBSET DayNames}
    \cup {WeekdaysList(Members(e, Reverse(SetToSeq(S)))) : e \in {"light", "pump"},
                                                          S \in SUBSET DayNames}
    \cup {WeekdaysList(Members(e, <<"everyday">>)) : e \in {"light", "pump"}}
    \cup {WeekdaysList(Members(e, <<"monday", "everyday">>)) : e \in {"light", "pump"}}
    \cup {WeekdaysList(Members(e, <<"friday", "monday", "friday">>)) : e \in {"light", "pump"}}

EncodeUartCall ==
    /\ codec_in = NoCodecCall
    /\ \E cmd_id \in TestCmdIds, mode \in TestModes, m \in TestMsgIds, params \in TestParams :
          /\ codec_in' = [op |-> "encode_uart", cmd_id |-> cmd_id, mode |-> mode,
                          msg_id |-> m, params |-> params]
          /\ codec_out' = [op |-> "encode_uart",
                           frame |-> encode_uart_command(cmd_id, mode, m, params)]
    /\ UNCHANGED <<pipeVars, idVars, regVars, svcVars, capVars>>

HeadDoseCall ==
    /\ codec_in = NoCodecCall
    /\ \E m \in TestDoseMsgIds, head \in TestHeads, volume \in TestVolumes, mask \in TestMasks :
          /\ codec_in' = [op |-> "head_dose", msg_id |-> m, head_index |-> head,
                          volume_tenths_ml |-> volume, weekday_mask |-> mask]
          /\ codec_out' = [op |-> "head_dose",
                           ret |-> create_head_dose_command(m, head, volume, mask)]
    /\ UNCHANGED <<pipeVars, idVars, regVars, svcVars, capVars>>

\* encode_weekdays, and decode_pump_weekdays of the mask it returned.
WeekdaysCall ==
    /\ codec_in = NoCodecCall
    /\ \E w \in TestWeekdays :
          /\ codec_in' = [op |-> "weekdays", weekdays |-> w]
          /\ codec_out' = [op |-> "weekdays", encoded |-> encode_weekdays(w),
                           decoded |-> decode_pump_weekdays(encode_weekdays(w).mask)]
    /\ UNCHANGED <<pipeVars, idVars, regVars, svcVars, capVars>>

\* Notification payloads: empty, truncated, wrong first byte, unknown mode,
\* and well-formed 0xFE and 0x1E frames.
TestHeader(first, mode) == <<first, 0, 1, 0, 7, mode>>
TestHead == <<0, 8, 30, 0, 0, 0, 0, 1, 44>>
TestTail == <<10, 20, 30, 40, 1>>
TestPayloads ==
    {<<>>, <<91>>, <<91, 0, 1, 0, 7>>,
     TestHeader(91, 254), TestHeader(91, 254) \o <<3, 12>>,
     TestHeader(91, 254) \o <<3, 12, 30>>,
     TestHeader(91, 254) \o <<3, 12, 30>> \o <<0, 8, 30, 0>>,
     TestHeader(91, 254) \o <<3, 12, 30>> \o <<0, 8>> \o TestTail,
     TestHeader(91, 254) \o <<3, 12, 30>> \o TestHead \o TestTail,
     TestHeader(91, 254) \o <<3, 12, 30>> \o TestHead \o TestHead \o TestHead
         \o TestHead \o TestTail,
     TestHeader(90, 254) \o <<3, 12, 30>> \o TestHead \o TestTail,
     TestHeader(0, 254) \o <<3, 12, 30>>,
     TestHeader(91, 30), TestHeader(91, 30) \o <<0, 10, 1>>,
     TestHeader(91, 30) \o <<0, 10, 1, 0, 0, 0, 255, 255, 9>>,
     TestHeader(90, 30) \o <<0, 10, 1, 0>>,
     TestHeader(91, 34) \o <<3, 12, 30>> \o TestHead \o TestTail}

\* The status a device holds before the notification: none, or an earlier one.
TestLastStatus ==
    {NoStatus, parse_doser_payload(TestHeader(91, 30) \o <<0, 10, 1, 0>>).status}

\* Doser.handle_notification on a device whose _last_status is last_status,
\* with the result of parse_doser_payload on the same payload.
NotificationCall ==
    /\ codec_in = NoCodecCall
    /\ \E payload \in TestPayloads, last_status \in TestLastStatus :
          /\ codec_in' = [op |-> "notification", payload |-> payload,
                          last_status |-> last_status]
          /\ codec_out' = [op |-> "notification",
                           parsed |-> parse_doser_payload(payload),
                           last_status |-> handle_notification(last_status, payload)]
    /\ UNCHANGED <<pipeVars, idVars, regVars, svcVars, capVars>>

\* Arguments of set_schedule as the validator passes them on, and the devices
\* the storage can hold before the command.
TestScheduleWeekdays ==
    {WeekdaysNone,
     WeekdaysList(Members("pump", <<"monday", "wednesday", "friday">>)),
     WeekdaysList(Members("pump", <<"sunday">>)),
     WeekdaysList(Members("pump", DayOrder))}
TestScheduleArgs ==
    [head_index : 1..4, volume_tenths_ml : {0, 55, 255, 256}, hour : {0, 10, 23},
     minute : {0, 30, 59}, weekdays : TestScheduleWeekdays]
TestStoredDevices ==
    {NoDevice, create_default_doser_config,
     create_doser_config_from_command([head_index |-> 1, volume_tenths_ml |-> 20, hour |-> 8,
         minute |-> 15, weekdays |-> WeekdaysList(Members("pump", <<"tuesday">>))]).device}

\* A successful set_schedule command followed by _save_doser_schedule_config:
\* the weekday mask sent to the device and the stored device afterwards.
SaveScheduleCall ==
    /\ codec_in = NoCodecCall
    /\ \E device \in TestStoredDevices, args \in TestScheduleArgs :
          /\ codec_in' = [op |-> "save_schedule", device |-> device, args |-> args]
          /\ codec_out' = [op |-> "save_schedule",
                           weekday_mask |-> encode_weekdays(args.weekdays).mask,
                           stored |-> doser_storage_after_save(device, args)]
    /\ UNCHANGED <<pipeVars, idVars, regVars, svcVars, capVars>>

\* Arguments of add_auto_setting as the validator passes them on, and the
\* profiles the storage can hold before the command.
TestAutoWeekdays ==
    {WeekdaysNone,
     WeekdaysList(Members("light", <<"saturday", "sunday">>)),
     WeekdaysList(Members("light", <<"everyday">>))}
TestAutoArgs ==
    [sunrise : {TimeString(8, 0), TimeString(20, 30)}, sunset : {TimeString(18, 0)},
     ramp_up_minutes : {0, 15}, weekdays : TestAutoWeekdays,
     brightness : {NoneInt, 0, 80}, channels : BOOLEAN]
TestAutoProgram == AutoProgram(<<"monday">>, TimeString(9, 0), TimeString(17, 0), 30, 50)
TestProfiles ==
    {ManualProfile(40), AutoProfile(<<TestAutoProgram>>),
     AutoProfile(<<TestAutoProgram, TestAutoProgram>>)}

\* A successful add_auto_setting command followed by
\* _save_light_auto_setting_config: the weekday mask sent to the light and the
\* stored profile afterwards.
SaveAutoSettingCall ==
    /\ codec_in = NoCodecCall
    /\ \E profile \in TestProfiles, args \in TestAutoArgs, channels_cached \in BOOLEAN :
          /\ auto_setting_brightness_arg(args) # "ValueError"
          /\ codec_in' = [op |-> "save_auto_setting", profile |-> profile, args |-> args,
                          channels_cached |-> channels_cached]
          /\ codec_out' = [op |-> "save_auto_setting",
                           weekday_mask |-> encode_weekdays(
                               IF args.weekdays.tag = "None"
                               THEN WeekdaysList(Members("light", <<"everyday">>))
                               ELSE args.weekdays).mask,
                           stored |-> light_profile_after_save(profile, args, channels_cached)]
    /\ UNCHANGED <<pipeVars, idVars, regVars, svcVars, capVars>>

-----------------------------------------------------------------------------
(* The light status decoder: storage/models.py                             *)

\* None in an Optional[int] field of the light header.
NoneByte == 0 - 1

\* _split_body: the header fields of a payload of at least 9 bytes starting
\* with 0x5B and the bytes after them; no fields and the whole payload
\* otherwise.
split_body(payload) ==
    IF Len(payload) > 0 /\ payload[1] = 91 /\ Len(payload) >= 9
    THEN [message_id |-> <<payload[4], payload[5]>>, response_mode |-> payload[6],
          weekday |-> payload[7], hour |-> payload[8], minute |-> payload[9],
          body |-> SubSeq(payload, 10, Len(payload))]
    ELSE [message_id |-> <<>>, response_mode |-> NoneByte, weekday |-> NoneByte,
          hour |-> NoneByte, minute |-> NoneByte, body |-> payload]

\* bytes.find: the lowest 0-based index at which pattern occurs, or -1.
bytes_find(s, pattern) ==
    LET hits == {i \in 0..(Len(s) - Len(pattern)) :
                    SubSeq(s, i + 1, i + Len(pattern)) = pattern}
    IN  IF hits = {} THEN 0 - 1 ELSE CHOOSE i \in hits : \A j \in hits : i <= j

LightKeyframe(hour, minute, value) == [hour |-> hour, minute |-> minute, value |-> value]

\* A mutant of out_of_order: an earlier keyframe never ends the scan.
out_of_order_never(last_time, total_minutes) == FALSE

\* The test that ends the scan: the keyframe is earlier than the last one
\* kept (last_time is None until a keyframe has been kept).
out_of_order(last_time, total_minutes) ==
    last_time # NoneByte /\ total_minutes < last_time

\* The while loop of parse_light_payload.  st holds its local variables: the
\* 0-based position i, last_time, the two result lists, and hour and minute,
\* which the loop assigns from every triple it reads.
RECURSIVE scan_light_body(_, _)
scan_light_body(body_bytes, st) ==
    LET i == st.i
        remaining == Len(body_bytes) - i
    IN  IF ~(i < Len(body_bytes)) THEN st
        ELSE IF remaining >= 4 /\ body_bytes[i + 1] = 0 /\ body_bytes[i + 2] = 2
        THEN scan_light_body(body_bytes,
                 [st EXCEPT !.time_markers = Append(@, <<body_bytes[i + 3], body_bytes[i + 4]>>),
                            !.i = i + 4])
        ELSE IF remaining < 3 THEN st
        ELSE LET hour == body_bytes[i + 1]
                 minute == body_bytes[i + 2]
                 value == body_bytes[i + 3]
                 total_minutes == hour * 60 + minute
                 read == [st EXCEPT !.hour = hour, !.minute = minute]
             IN  IF <<hour, minute, value>> = <<0, 0, 0>>
                 THEN scan_light_body(body_bytes, [read EXCEPT !.i = i + 3])
                 ELSE IF out_of_order(st.last_time, total_minutes) THEN read
                 ELSE scan_light_body(body_bytes,
                          [read EXCEPT !.keyframes = Append(@, LightKeyframe(hour, minute, value)),
                                       !.last_time = total_minutes,
                                       !.i = i + 3])

\* The bytes the loop scans: the body without its last 5 bytes (when it has
\* 5), and, when the header's (weekday, hour, minute) occurs in them at an
\* offset of at most 16, only the bytes after that occurrence.
light_body_bytes(payload) ==
    LET h == split_body(payload)
        body == h.body
        stripped == IF Len(body) >= 5 THEN SubSeq(body, 1, Len(body) - 5) ELSE body
        idx == IF /\ h.weekday # NoneByte /\ h.hour # NoneByte /\ h.minute # NoneByte
                  /\ Len(stripped) >= 3
               THEN bytes_find(stripped, <<h.weekday, h.hour, h.minute>>)
               ELSE 0 - 1
    IN  IF idx # 0 - 1 /\ idx <= 16
        THEN SubSeq(stripped, idx + 4, Len(stripped))
        ELSE stripped

parse_light_payload(payload) ==
    LET h == split_body(payload)
        body == h.body
        tail == IF Len(body) >= 5 THEN SubSeq(body, Len(body) - 4, Len(body)) ELSE <<>>
        end == scan_light_body(light_body_bytes(payload),
                   [i |-> 0, last_time |-> NoneByte, keyframes |-> <<>>,
                    time_markers |-> <<>>, hour |-> h.hour, minute |-> h.minute])
    IN  [message_id |-> h.message_id, response_mode |-> h.response_mode,
         weekday |-> h.weekday, hour |-> end.hour, minute |-> end.minute,
         keyframes |-> end.keyframes, time_markers |-> end.time_markers,
         tail |-> tail, raw_payload |-> payload]

\* 0xFE payloads: a header with one of three clocks, up to three groups (key
\* frames, padding, a time marker, a group that ends with the weekday of the
\* first clock, stray bytes), and a 5-byte tail or none.
MaxGroups == 3
TestLightClocks == {<<3, 12, 30>>, <<0, 0, 0>>, <<7, 23, 59>>}
TestLightGroups ==
    {<<8, 0, 10>>, <<12, 30, 100>>, <<6, 0, 3>>, <<0, 0, 0>>, <<0, 2, 9, 15>>, <<0, 2>>, <<1>>}
TestLightTails == {<<>>, <<10, 20, 30, 40, 1>>}

RECURSIVE Concat(_)
Concat(groups) == IF Len(groups) = 0 THEN <<>> ELSE Head(groups) \o Concat(Tail(groups))

TestLightBodies ==
    UNION {{Concat(gs) : gs \in [1..n -> TestLightGroups]} : n \in 0..MaxGroups}

TestLightPayloads ==
    {<<91, 0, 1, 0, 7, 254>> \o clock \o body \o tail :
        clock \in TestLightClocks, body \in TestLightBodies, tail \in TestLightTails}
    \cup {<<91, 0, 1, 0, 7, 254>>, <<91, 0, 1, 0, 7, 254, 3, 12>>}

\* Light._parse_status on a 0xFE payload: parse_light_payload of the payload.
LightPayloadCall ==
    /\ codec_in = NoCodecCall
    /\ \E payload \in TestLightPayloads :
          /\ codec_in' = [op |-> "light_payload", payload |-> payload]
          /\ codec_out' = [op |-> "light_payload", status |-> parse_light_payload(payload)]
    /\ UNCHANGED <<pipeVars, idVars, regVars, svcVars, capVars>>

-----------------------------------------------------------------------------
(* The frames of one set_daily_dose sequence: device/doser.py              *)

\* _encode_timestamp of a datetime.
encode_timestamp(ts) ==
    <<ts.year - 2000, ts.month, ts.isoweekday, ts.hour, ts.minute, ts.second>>

create_handshake_command(m) == Returned(encode_uart_command(90, 4, m, <<1>>))

\* create_set_time_command; now is the value of datetime.datetime.now().
create_set_time_command(m, now) == Returned(encode_uart_command(90, 9, m, encode_timestamp(now)))

create_prepare_command(m, stage) ==
    IF stage \notin {4, 5} THEN Raised("ValueError")
    ELSE Returned(encode_uart_command(165, 4, m, <<stage>>))

create_head_select_command(m, head_index) ==
    IF ~(0 <= head_index /\ head_index <= 3) THEN Raised("ValueError")
    ELSE Returned(encode_uart_command(165, 32, m, <<head_index, 0, 1>>))

create_head_schedule_command(m, head_index, hour, minute) ==
    IF ~(0 <= hour /\ hour <= 23) THEN Raised("ValueError")
    ELSE IF ~(0 <= minute /\ minute <= 59) THEN Raised("ValueError")
    ELSE Returned(encode_uart_command(165, 21, m, <<head_index, 0, hour, minute, 0, 0>>))

\* BaseDevice.get_next_msg_id: the handle's counter advances by one step of
\* next_message_id and the new value is returned.
get_next_msg_id(counter) == next_message_id(counter)

\* The id the k-th call of get_next_msg_id returns on a handle whose counter
\* is `counter`.
RECURSIVE nth_msg_id(_, _)
nth_msg_id(counter, k) ==
    IF k = 0 THEN counter ELSE get_next_msg_id(nth_msg_id(counter, k - 1))

\* A mutant of set_daily_dose_frames: the handle's counter follows the id
\* the encoder put into the previous frame.
set_daily_dose_frames_synced(counter, args, now) ==
    LET ble_head_index == args.head_index - 1
        weekday_mask == encode_weekdays(args.weekdays)
        f1 == create_handshake_command(get_next_msg_id(counter))
        f2 == create_set_time_command(get_next_msg_id(<<f1.frame[4], f1.frame[5]>>), now[1])
        f3 == create_set_time_command(get_next_msg_id(<<f2.frame[4], f2.frame[5]>>), now[2])
        f4 == create_prepare_command(get_next_msg_id(<<f3.frame[4], f3.frame[5]>>), 4)
        f5 == create_prepare_command(get_next_msg_id(<<f4.frame[4], f4.frame[5]>>), 5)
        f6 == create_head_select_command(get_next_msg_id(<<f5.frame[4], f5.frame[5]>>),
                                         ble_head_index)
        f7 == create_head_dose_command(get_next_msg_id(<<f6.frame[4], f6.frame[5]>>),
                  ble_head_index, args.volume_tenths_ml, weekday_mask.mask)
        f8 == create_head_schedule_command(get_next_msg_id(<<f7.frame[4], f7.frame[5]>>),
                  ble_head_index, args.hour, args.minute)
    IN  IF weekday_mask.err # "none" \/ f6.err # "none" \/ f7.err # "none" \/ f8.err # "none"
        THEN [err |-> "ValueError", frames |-> <<>>]
        ELSE [err |-> "none",
              frames |-> <<f1.frame, f2.frame, f3.frame, f4.frame, f5.frame, f6.frame,
                           f7.frame, f8.frame>>]

\* The frames Doser.set_daily_dose builds on a handle whose message id
\* counter is `counter`: each builder gets the id of one get_next_msg_id
\* call. now holds the clock readings of the two time syncs. With an
\* argument a builder rejects the call raises ValueError.
set_daily_dose_frames(counter, args, now) ==
    LET ble_head_index == args.head_index - 1
        weekday_mask == encode_weekdays(args.weekdays)
        f1 == create_handshake_command(nth_msg_id(counter, 1))
        f2 == create_set_time_command(nth_msg_id(counter, 2), now[1])
        f3 == create_set_time_command(nth_msg_id(counter, 3), now[2])
        f4 == create_prepare_command(nth_msg_id(counter, 4), 4)
        f5 == create_prepare_command(nth_msg_id(counter, 5), 5)
        f6 == create_head_select_command(nth_msg_id(counter, 6), ble_head_index)
        f7 == create_head_dose_command(nth_msg_id(counter, 7), ble_head_index,
                                       args.volume_tenths_ml, weekday_mask.mask)
        f8 == create_head_schedule_command(nth_msg_id(counter, 8), ble_head_index,
                                           args.hour, args.minute)
    IN  IF weekday_mask.err # "none" \/ f6.err # "none" \/ f7.err # "none" \/ f8.err # "none"
        THEN [err |-> "ValueError", frames |-> <<>>]
        ELSE [err |-> "none",
              frames |-> <<f1.frame, f2.frame, f3.frame, f4.frame, f5.frame, f6.frame,
                           f7.frame, f8.frame>>]

\* Handles whose counter is anywhere in the first 256 ids or just before the
\* high byte goes from 127 to 128, two clock readings, and valid and
\* rejected arguments.
TestCounters ==
    {<<0, lo>> : lo \in (0..255) \ {90}} \cup {<<127, lo>> : lo \in 240..255}
TestNow ==
    {[year |-> 2026, month |-> 11, isoweekday |-> 2, hour |-> 12, minute |-> 40, second |-> s] :
        s \in {7, 8}}
TestDoseArgs ==
    {[head_index |-> h, volume_tenths_ml |-> v, hour |-> 9, minute |-> 30, weekdays |-> w] :
        h \in {1, 4, 5}, v \in {100, 300},
        w \in {WeekdaysNone, WeekdaysList(Members("pump", <<"monday", "friday">>))}}

\* Doser.set_daily_dose up to the frames it hands to _send_command.
SetDailyDoseCall ==
    /\ codec_in = NoCodecCall
    /\ \E counter \in TestCounters, args \in TestDoseArgs, now1 \in TestNow, now2 \in TestNow :
          /\ codec_in' = [op |-> "set_daily_dose", counter |-> counter, args |-> args,
                          now |-> <<now1, now2>>]
          /\ codec_out' = [op |-> "set_daily_dose",
                           ret |-> set_daily_dose_frames(counter, args, <<now1, now2>>)]
    /\ UNCHANGED <<pipeVars, idVars, regVars, svcVars, capVars>>

NextCodec ==
    \/ EncodeUartCall
    \/ HeadDoseCall
    \/ WeekdaysCall
    \/ NotificationCall
    \/ SaveScheduleCall
    \/ SaveAutoSettingCall
    \/ LightPayloadCall
    \/ SetDailyDoseCall

SpecCodec == Init /\ [][NextCodec]_vars

-----------------------------------------------------------------------------
(* Claims about the command pipeline (specification Spec).                 *)

Commands == {t \in Slots : IsCommand(t)}

\* C1: two execute_command calls on the same address are never both in their
\* device interaction, that is both with a record that is started and not
\* yet terminal: the second one's record becomes started only after the
\* first one's has become terminal.
C1_SameAddressSerialized ==
    \A t, u \in Commands :
        (t # u /\ call[t].address = call[u].address)
            => ~(rec[t].status = "started" /\ rec[u].status = "started")

\* A second command waits, pending, while a command on its address is started.
C1_Witness ==
    \E t, u \in Commands :
        /\ t # u /\ call[t].address = call[u].address
        /\ rec[t].status = "started" /\ pc[t] = "send"
        /\ rec[u].status = "pending" /\ pc[u] = "waitlock"

\* The statuses a record may have had, oldest first.
C2_Trails ==
    {<<"pending">>, <<"pending", "started">>, <<"pending", "failed">>}
    \cup {<<"pending", "started", s>> : s \in TerminalStatus}

\* C2: a record moves only along pending -> started -> {success, failed,
\* timeout}, or pending -> failed for a validation error; it enters a
\* terminal status exactly once, nothing follows it, and the record a call
\* returns is terminal.
C2_RecordLifecycle ==
    \A t \in Commands :
        /\ rec[t].trail \in C2_Trails
        /\ rec[t].status = rec[t].trail[Len(rec[t].trail)]
        /\ (Len(rec[t].trail) = 2 /\ rec[t].status = "failed")
              => rec[t].error_kind = "validation_error"
        /\ pc[t] = "done" <=> rec[t].status \in TerminalStatus

\* A call that raised an HTTPException inside the lock has returned a record
\* that failed once.
C2_Witness ==
    \E t \in Commands :
        /\ pc[t] = "done"
        /\ rec[t].trail = <<"pending", "started", "failed">>
        /\ dose[t].failedAt = 3

C3_Failed(t) == rec[t].error_kind = "validation_error"

\* C3: a record failed by argument validation has status failed and was
\* never started, and the step that produces it takes or waits for no lock,
\* looks nothing up in the registry and transmits no frame, whoever holds the
\* lock of that address.
C3_ValidationTouchesNothing ==
    /\ [](\A t \in Slots :
            C3_Failed(t) => /\ rec[t].trail = <<"pending", "failed">>
                            /\ pc[t] = "done"
                            /\ \A k \in DOMAIN device_locks : device_locks[k] # t)
    /\ [][\A t \in Slots :
            (C3_Failed(t)' /\ ~C3_Failed(t))
                => /\ UNCHANGED <<device_locks, devices, addresses, registry_lock>>
                   /\ tx' = NoTx
                   /\ pc[t] = "idle"]_vars

\* A validation failure returned while another command holds the lock of the
\* same address.
C3_Witness ==
    \E t, u \in Commands :
        /\ t # u /\ call[t].address = call[u].address
        /\ C3_Failed(t)
        /\ rec[u].status = "started"
        /\ Key(u) \in DOMAIN device_locks /\ device_locks[Key(u)] = u

\* The order of the configuration frames.
C4_Order == <<"handshake", "set_time", "set_time", "prepare_04", "prepare_05",
              "head_select", "head_dose", "head_schedule">>

\* C4: the configuration frames set_daily_dose has sent are at every moment
\* a prefix of handshake, set-time, set-time, prepare(0x04), prepare(0x05),
\* head-select, head-dose, head-schedule; when sending frame k failed, frames
\* 1..k-1 and nothing else were sent, the call ended with an error and the
\* record is not success.
C4_DoseSequenceOrder ==
    \A t \in Commands :
        /\ IsPrefix(dose[t].sent, C4_Order)
        /\ dose[t].failedAt # 0
              => /\ Len(dose[t].sent) = dose[t].failedAt - 1
                 /\ dose[t].result = "error"
                 /\ pc[t] = "done"
                 /\ rec[t].status = "failed"
        /\ rec[t].status = "success" => dose[t].sent = C4_Order

\* Sending the head-dose frame failed after the six prelude frames.
C4_Witness ==
    \E t \in Commands :
        /\ dose[t].failedAt = 7
        /\ Len(dose[t].sent) = 6

\* set_daily_dose is in flight: entered and not yet returned or raised.
DoseInFlight(t) == IsCommand(t) /\ pc[t] \in {"send", "confirm", "confirm_sleep"}

\* C5: while a set_daily_dose sequence for a device is in flight, no other
\* operation (another command's status refresh, a connect_device call of the
\* API or of a background worker) writes a frame to that device.
C5_AllSendsSerialized ==
    \A t \in Slots :
        (DoseInFlight(t) /\ tx.dev = call[t].address) => tx.by = t

-----------------------------------------------------------------------------
(* Claims about the message id generator (specification SpecMsgId).        *)

\* C7: every id produced from reset_message_id() by next_message_id has
\* neither byte equal to 90 and is not (0,0), and (255,255) is followed by
\* (0,1).
C7_MsgIdNever90 ==
    /\ msg_id[1] \in 0..255 /\ msg_id[2] \in 0..255
    /\ msg_id[1] # 90 /\ msg_id[2] # 90
    /\ msg_id # <<0, 0>>
    /\ prev_msg_id = <<255, 255>> => msg_id = <<0, 1>>

\* The generator has wrapped.
C7_Witness == prev_msg_id = <<255, 255>> /\ steps > 0

\* The ids with neither byte 90, (0,0) left out: 255 * 255 - 1 of them.
CycleLen == 255 * 255 - 1

\* The place of an id in the order (0,1), (0,2), ..., (255,255): one number
\* for each id, so that ids of different rank are different ids.
C8_Rank(m) ==
    LET skip(b) == IF b > 90 THEN b - 1 ELSE b
    IN  skip(m[1]) * 255 + skip(m[2]) - 1

\* C8: the n-th id after a reset has rank n for every n below 255 * 255 - 1,
\* so the first 255 * 255 - 1 ids are pairwise different and are all the ids
\* there are; the id after them is the first one again.
C8_NoRepeatBeforeExhaustion ==
    /\ steps < CycleLen => C8_Rank(msg_id) = steps
    /\ steps = CycleLen => msg_id = reset_message_id

\* The whole id space has been traversed.
C8_Witness == steps = CycleLen /\ C8_Rank(prev_msg_id) = CycleLen - 1

-----------------------------------------------------------------------------
(* Claims about the encoders (specification SpecCodec).                    *)

Last(s) == s[Len(s)]

\* C6: the checksum byte of the frame _encode_uart_command returns is not 90,
\* for every cmd_id, mode, non-empty parameter list and valid message id.
C6_ChecksumNever90 ==
    codec_in.op = "encode_uart"
        => /\ ValidMsgId(codec_in.msg_id) /\ Len(codec_in.params) > 0
           /\ Last(codec_out.frame) # 90
           /\ Last(codec_out.frame) \in 0..255

\* The frame built with the given id has checksum 90, and so has the one
\* built with the next id: (127,255) and (128,0) have the same XOR.
C6_Witness ==
    /\ codec_in.op = "encode_uart"
    /\ codec_in.msg_id = <<127, 255>>
    /\ codec_in.mode = 4 /\ codec_in.params = <<217>>
    /\ <<codec_out.frame[4], codec_out.frame[5]>> = <<128, 1>>

\* C9: create_head_dose_command uses mode 0x1B and one volume byte for a
\* volume in 0..255, mode 0x1C and two volume bytes, high byte first, for a
\* volume in 256..65535 (256 is sent as 1, 0); a volume outside 0..65535 or
\* a weekday mask outside 0..127 raises and gives no frame.
C9_HeadDoseModes ==
    codec_in.op = "head_dose" =>
        LET v == codec_in.volume_tenths_ml
            w == codec_in.weekday_mask
            ret == codec_out.ret
            f == ret.frame
        IN  IF v \in 0..65535 /\ w \in 0..127
            THEN /\ ret.err = "none"
                 /\ f[1] = 165
                 /\ v <= 255 => /\ f[6] = 27 /\ Len(f) = 13 /\ f[3] = 11
                                /\ v # 90 => f[12] = v
                 /\ v >= 256 => /\ f[6] = 28 /\ Len(f) = 14 /\ f[3] = 12
                                /\ (v \div 256) # 90 => f[12] = v \div 256
                                /\ (v % 256) # 90 => f[13] = v % 256
                 /\ v = 256 => (f[12] = 1 /\ f[13] = 0)
            ELSE ret.err = "ValueError" /\ f = <<>>

\* The first volume of the two-byte mode.
C9_Witness ==
    /\ codec_in.op = "head_dose"
    /\ codec_in.volume_tenths_ml = 256 /\ codec_in.weekday_mask = 84
    /\ codec_out.ret.frame[6] = 28

\* The bit of a named day: monday = bit 6, ..., sunday = bit 0.
C10_Bit(day) == 2 ^ (7 - (CHOOSE i \in DOMAIN DayOrder : DayOrder[i] = day))

C11_EmptyIsEveryday ==
    (/\ codec_in.op = "weekdays"
     /\ \/ codec_in.weekdays.tag = "None"
        \/ Len(codec_in.weekdays.days) = 0)
        => /\ codec_out.encoded.err = "none"
           /\ codec_out.encoded.mask = 127

\* The status object that carries only raw_payload.
C12_MinimalStatus(payload) ==
    DoserStatus(<<>>, NoneInt, NoneInt, NoneInt, NoneInt, <<>>, <<>>, NoneInt, <<>>, <<>>, payload)

\* A payload that is too short for its header or does not begin with 0x5B.
C12_Malformed(payload) ==
    \/ Len(payload) < 6
    \/ payload[1] # 91
    \/ payload[6] = 254 /\ Len(payload) < 9

\* C12: the doser notification decoder, given a payload that is truncated or
\* does not begin with 0x5B, does not raise and yields a status object whose
\* only populated field is raw_payload.
C12_MalformedGivesMinimalStatus ==
    (codec_in.op = "notification" /\ C12_Malformed(codec_in.payload))
        => /\ codec_out.parsed.err = "none"
           /\ codec_out.parsed.status = C12_MinimalStatus(codec_in.payload)
           /\ codec_out.last_status = C12_MinimalStatus(codec_in.payload)

-----------------------------------------------------------------------------
(* More claims about the command pipeline (specification Spec).            *)

\* C13: when the action body runs out of time, the record ends in status
\* timeout with no failed or success before or after it, the action body
\* takes no further step (it holds no registry lock and its dose sequence is
\* not running), and the address's lock is free, so a later command for the
\* same address can start.
C13_TimeoutReleases ==
    /\ [](\A t \in Slots :
            rec[t].status = "timeout"
                => /\ rec[t].trail = <<"pending", "started", "timeout">>
                   /\ rec[t].error_kind = "none"
                   /\ pc[t] = "done"
                   /\ registry_lock # t
                   /\ dose[t].result # "running"
                   /\ \A k \in DOMAIN device_locks : device_locks[k] # t)
    /\ [][\A t \in Slots :
            /\ (rec[t].status = "started" /\ rec'[t].status = "timeout")
                  => /\ device_locks'[Key(t)] = 0
                     /\ dose'[t].sent = dose[t].sent
            /\ rec[t].status = "timeout" => rec'[t].status \in {"timeout", "none"}]_vars

\* A command on A has timed out after part of its dose sequence, and a later
\* command on A has started.
C13_Witness ==
    \E t1, t2 \in Slots :
        /\ t1 # t2
        /\ call[t1].address = call[t2].address
        /\ rec[t1].status = "timeout"
        /\ Len(dose[t1].sent) > 0
        /\ rec[t2].status = "started"
        /\ device_locks[Key(t2)] = t2

\* C14: the error kind of a failed record identifies its cause: an address
\* that could not be resolved gives not_found, a resolved device of the wrong
\* kind gives wrong_type, a transport failure gives not_reachable, and
\* internal_error is used for none of these.  The names ErrorCode has for a
\* kind (device_not_found, ble_connection_error) count as that kind.
C14_ErrorKindIdentifiesCause ==
    \A t \in Slots :
        rec[t].status = "failed"
            => /\ rec[t].error = "HTTPException 404 not_found"
                     => rec[t].error_kind \in {"not_found", "device_not_found"}
               /\ rec[t].error = "HTTPException 400 wrong_type"
                     => rec[t].error_kind = "wrong_type"
               /\ rec[t].error = "HTTPException 404 not_reachable"
                     => rec[t].error_kind \in {"not_reachable", "ble_connection_error"}

\* C15: when the device action has succeeded and the configuration save that
\* follows meets an exception of the storage, the record still ends in
\* success and the call returns it: no exception reaches the caller.
C15_SaveFailureSwallowed ==
    \A t \in Slots :
        config_save[t] = "raised"
            => /\ pc[t] = "done"
               /\ rec[t].status = "success"
               /\ rec[t].error_kind = "none"
               /\ rec[t].error = "none"

\* A command whose eight frames went out and whose save raised.
C15_Witness ==
    \E t \in Slots :
        /\ config_save[t] = "raised"
        /\ dose[t].sent = DoseFrames
        /\ rec[t].status = "success"

-----------------------------------------------------------------------------
(* Claims about the stored configuration (specification SpecCodec).        *)

\* C16: after a successful set_schedule for head h with volume v tenths, time
\* hh:mm and weekday set D, the stored configuration has a head with index h
\* whose schedule is dailyDoseMl = v/10 and startTime = hh:mm and whose
\* recurrence days are the days programmed on the device, whether or not a
\* configuration was stored before.
C16_StoredScheduleMatchesCommand ==
    codec_in.op = "save_schedule"
        => \E i \in DOMAIN codec_out.stored.heads :
              LET head == codec_out.stored.heads[i]
              IN  /\ head.index = codec_in.args.head_index
                  /\ head.schedule.dailyDoseMl = TenthsToMl(codec_in.args.volume_tenths_ml)
                  /\ head.schedule.startTime = TimeString(codec_in.args.hour, codec_in.args.minute)
                  /\ Range(head.recurrence) = Range(decode_pump_weekdays(codec_out.weekday_mask))

\* The program of the command is the last one of the stored profile.
C17_HoldsProgram(stored, args, mask) ==
    /\ stored.mode = "auto"
    /\ Len(stored.programs) > 0
    /\ LET program == stored.programs[Len(stored.programs)]
       IN  /\ program.sunrise = args.sunrise
           /\ program.sunset = args.sunset
           /\ program.rampMinutes = args.ramp_up_minutes
           /\ Range(program.days) = Range(decode_pump_weekdays(mask))

\* C17: after a successful add_auto_setting on a light with a stored
\* configuration, the stored profile is an AutoProfile that holds a program
\* with the command's sunrise, sunset, ramp minutes and weekday set: alone when
\* the previous profile was not an AutoProfile, appended to the previous
\* programs otherwise.
C17_AutoProgramStored ==
    codec_in.op = "save_auto_setting"
        => /\ C17_HoldsProgram(codec_out.stored, codec_in.args, codec_out.weekday_mask)
           /\ Len(codec_out.stored.programs) = Len(codec_in.profile.programs) + 1
           /\ \A i \in DOMAIN codec_in.profile.programs :
                 codec_out.stored.programs[i] = codec_in.profile.programs[i]

-----------------------------------------------------------------------------
(* Claims about the device registry (specification SpecRegistry).          *)

\* C18: _ensure_device for an address it has to resolve makes at most 3
\* get_device_from_address attempts and stops at the first that succeeds
\* (while it is still trying, every attempt so far has failed); after 3
\* failures it raises not_found, and only then; a device of the wrong kind
\* raises wrong_type at once, nothing is registered by the call, and no
\* further attempt follows.
C18_BoundedResolution ==
    /\ [](\A t \in Callers :
            LET c == reg_call[t]
            IN  /\ c.resolutions <= 3
                /\ c.pc \in {"resolve", "backoff"} => c.resolutions = c.failures /\ c.failures < 3
                /\ c.result = "not_found" <=> c.failures = 3
                /\ c.result = "not_found" => c.resolutions = 3 /\ c.created = 0 /\ c.pc = "done"
                /\ c.result = "wrong_type"
                      => c.resolutions = c.failures + 1 /\ c.created = 0 /\ c.pc = "done"
                /\ (c.result = "handle" /\ c.resolutions > 0)
                      => c.resolutions = c.failures + 1 /\ c.pc = "done")
    /\ [][\A t \in Callers :
            reg_call[t].pc = "done"
                => \/ reg_call'[t] = reg_call[t]
                   \/ reg_call'[t] = [reg_call[t] EXCEPT !.disturbed = TRUE]
                   \/ reg_call'[t] = NoRegCall]_vars

\* One call ended in not_found after three failed attempts while another got
\* its handle at the third attempt.
C18_Witness ==
    \E t1, t2 \in Callers :
        /\ reg_call[t1].result = "not_found" /\ reg_call[t1].failures = 3
        /\ reg_call[t2].result = "handle" /\ reg_call[t2].failures = 2
        /\ reg_call[t2].created # 0

\* Two _ensure_device calls that were in progress at the same time, for the
\* same address and the same expected kind, with no disconnect and no ensure
\* without an expected kind changing the registration of that address under
\* them.
C19_Concurrent(t1, t2) ==
    /\ t1 # t2
    /\ {t1, t2} \in overlap
    /\ reg_call[t1].op = "ensure" /\ reg_call[t2].op = "ensure"
    /\ reg_call[t1].address = reg_call[t2].address
    /\ reg_call[t1].expected_kind = reg_call[t2].expected_kind
    /\ reg_call[t1].expected_kind # "none"
    /\ ~reg_call[t1].disturbed /\ ~reg_call[t2].disturbed

\* C19: of two concurrent _ensure_device calls for the same expected kind and
\* address, at most one creates and registers a handle, and when both return
\* a handle it is the same one.
C19_NoDuplicateHandle ==
    \A t1, t2 \in Callers :
        C19_Concurrent(t1, t2)
            => /\ ~(reg_call[t1].created # 0 /\ reg_call[t2].created # 0)
               /\ (reg_call[t1].result = "handle" /\ reg_call[t2].result = "handle")
                     => reg_call[t1].handle = reg_call[t2].handle

\* Two concurrent calls for an unregistered pair: one created the handle, the
\* other returned the same handle without resolving.
C19_Witness ==
    \E t1, t2 \in Callers :
        /\ C19_Concurrent(t1, t2)
        /\ reg_call[t1].registered_at_entry = 0
        /\ reg_call[t1].created # 0
        /\ reg_call[t2].result = "handle"
        /\ reg_call[t2].resolutions = 0
        /\ reg_call[t2].handle = reg_call[t1].created

\* The handles of an address that were handed out and are not disconnected.
C20_Live(address) ==
    {i \in DOMAIN handles :
        handles[i].address = address /\ handles[i].state \in {"registered", "replaced"}}

\* C20: after any sequence of ensure and disconnect calls there is at most one
\* live handle per (kind, address), and an ensure call that finds a handle
\* registered for its address returns that handle and makes no radio
\* resolution, also when it gives no expected kind.
C20_OneLiveHandle ==
    /\ \A a \in RegAddrs : Cardinality(C20_Live(a)) <= 1
    /\ \A t \in Callers :
          (reg_call[t].op = "ensure" /\ reg_call[t].registered_at_entry # 0)
              => /\ reg_call[t].resolutions = 0
                 /\ reg_call[t].result = "handle" => reg_call[t].handle = reg_call[t].registered_at_entry

\* C21: the registry lock is never held while a get_device_from_address
\* attempt or a backoff sleep is in progress, so an _ensure_device call for a
\* registered address never finds the lock taken by the resolution of another
\* address.
C21_LockFreeDuringResolution ==
    /\ \A t \in Callers : reg_call[t].pc \in {"resolve", "backoff"} => reg_lock # t
    /\ \A t, u \in Callers :
          ( /\ reg_call[t].pc = "enter"
            /\ reg_call[t].expected_kind # "none"
            /\ reg_devices[<<reg_call[t].expected_kind, reg_call[t].address>>] # 0
            /\ reg_call[u].pc \in {"resolve", "backoff"}
            /\ reg_call[u].address # reg_call[t].address )
          => reg_lock = 0

-----------------------------------------------------------------------------
(* Further claims about the command pipeline (specification Spec).         *)

\* C26: a set_daily_dose call that fails on an argument (head index, hour,
\* minute, volume, weekdays) has transmitted no frame to the device.
C26_ArgumentErrorSendsNothing ==
    \A t \in Slots :
        (IsCommand(t) /\ rec[t].error = "HTTPException 400 ValueError")
            => dose[t].sent = <<>>

\* C29: a command that waits for its device lock waits for a command on the
\* same address; commands on different addresses never wait for each other's
\* lock, and each holds the lock of its own address while it talks to its
\* device.
C29_DifferentAddressesConcurrent ==
    \A t \in Slots :
        /\ pc[t] = "waitlock"
              => \A u \in Slots :
                    (Key(t) \in DOMAIN device_locks /\ device_locks[Key(t)] = u)
                        => call[u].address = call[t].address
        /\ (IsCommand(t) /\ pc[t] \in SuspensionPoints)
              => (Key(t) \in DOMAIN device_locks /\ device_locks[Key(t)] = t)

\* Two commands on different registered addresses are both in the middle of
\* their frame sequences.
C29_Witness ==
    \E t, u \in Slots :
        /\ IsCommand(t) /\ IsCommand(u)
        /\ call[t].address # call[u].address
        /\ {call[t].address, call[u].address} \subseteq devices
        /\ pc[t] = "send" /\ pc[u] = "send"
        /\ dose[t].sent # <<>> /\ dose[u].sent # <<>>

\* C30: the status a command on an address fetches and persists at its end
\* is requested from that address.
C30_StatusOfCommandedDevice ==
    \A t \in Slots :
        (IsCommand(t) /\ refresh_address[t] # NoAddr)
            => refresh_address[t] = call[t].address

-----------------------------------------------------------------------------
(* Further claims about the doser decoder (specification SpecCodec).       *)

\* The notification is decoded: handle_notification stores a status for it.
C27_Decoded(payload) == handle_notification(NoStatus, payload) # NoStatus

\* C27: in the status a doser notification is decoded into, exactly one of
\* heads and lifetime_totals_tenths_ml is non-empty, heads for response mode
\* 0xFE and the lifetime totals for 0x1E, and heads has at most 4 entries.
C27_ExactlyOneList ==
    (codec_out.op = "notification" /\ C27_Decoded(codec_in.payload))
        => LET s == codec_out.last_status
           IN  /\ (s.heads # <<>>) # (s.lifetime_totals_tenths_ml # <<>>)
               /\ s.response_mode = 254 => s.heads # <<>>
               /\ s.response_mode = 30 => s.lifetime_totals_tenths_ml # <<>>
               /\ Len(s.heads) <= 4

\* The notification is one of those the claim lists as discarded.
C28_Discarded(payload, parsed) ==
    \/ Len(payload) = 0
    \/ payload[1] # 91
    \/ Len(payload) < 6
    \/ payload[6] \notin {254, 30}
    \/ parsed.err # "none"

\* C28: a notification that is empty, does not start with 0x5B, is shorter
\* than 6 bytes, has a mode other than 0xFE and 0x1E, or on which the parser
\* raises, leaves _last_status as it was; any other replaces _last_status by
\* the status parsed from it alone: its raw payload, message id and mode are
\* those of the notification and nothing of the earlier status is kept.
C28_DiscardOrReplace ==
    codec_out.op = "notification"
        => LET payload == codec_in.payload
               before == codec_in.last_status
               after == codec_out.last_status
           IN  IF C28_Discarded(payload, codec_out.parsed)
               THEN after = before
               ELSE /\ after = codec_out.parsed.status
                    /\ after.present
                    /\ after.raw_payload = payload
                    /\ after.message_id = <<payload[4], payload[5]>>
                    /\ after.response_mode = payload[6]
                    /\ after.response_mode = 254 => after.lifetime_totals_tenths_ml = <<>>
                    /\ after.response_mode = 30 => after.heads = <<>>

\* A mode 0xFE notification too short for its parser arrived at a device that
\* held a status, and the status is still there.
C28_Witness ==
    /\ codec_out.op = "notification"
    /\ Len(codec_in.payload) >= 6
    /\ codec_in.payload[1] = 91
    /\ codec_in.payload[6] = 254
    /\ codec_out.parsed.err # "none"
    /\ codec_in.last_status.present
    /\ codec_out.last_status = codec_in.last_status

-----------------------------------------------------------------------------
(* Further claims about the device registry (specification SpecRegistry).  *)

\* The addresses that have a handle registered under the kind.
C22_Registered(kind) == {a \in RegAddrs : reg_devices[<<kind, a>>] # 0}

\* C22: in every state of the registry the primary address of a kind is set
\* exactly when a handle of that kind is registered, and it is the address of
\* one of them; a disconnect_device that finishes removes the handle of its
\* address, and a primary address that was this one becomes the address of a
\* handle that remains, or is cleared when none remains.
C22_PrimaryNamesRegistered ==
    /\ [](\A k \in Kinds :
            /\ reg_addresses[k] # NoAddr <=> C22_Registered(k) # {}
            /\ reg_addresses[k] # NoAddr => reg_addresses[k] \in C22_Registered(k))
    /\ [][\A t \in Callers :
            (reg_call[t].pc = "disconnecting" /\ reg_call'[t].pc = "done"
                                              /\ reg_call'[t].result # "cancelled")
                => LET a == reg_call[t].address
                       k == get_device_kind(a)
                   IN  /\ reg_devices'[<<k, a>>] = 0
                       /\ \A b \in RegAddrs \ {a} : reg_devices'[<<k, b>>] = reg_devices[<<k, b>>]
                       /\ reg_addresses[k] # a => reg_addresses'[k] = reg_addresses[k]
                       /\ reg_addresses[k] = a
                             => IF C22_Registered(k) \ {a} = {}
                                THEN reg_addresses'[k] = NoAddr
                                ELSE reg_addresses'[k] \in C22_Registered(k) \ {a}]_vars

\* B was registered after A, so it was the primary doser; its disconnect has
\* finished and A, still registered, is the primary doser.
C22_Witness ==
    /\ Len(handles) = 2
    /\ handles[1].address = "A" /\ handles[1].state = "registered"
    /\ handles[2].address = "B" /\ handles[2].state = "disconnected"
    /\ reg_devices[<<"doser", "A">>] = 1
    /\ reg_devices[<<"doser", "B">>] = 0
    /\ reg_addresses["doser"] = "A"
    /\ \E t \in Callers :
          /\ reg_call[t].op = "disconnect" /\ reg_call[t].address = "B"
          /\ reg_call[t].pc = "done" /\ reg_call[t].result # "cancelled"

-----------------------------------------------------------------------------
(* Claims about the service and its workers (SpecService, SpecServiceLive). *)

\* C23: the reconnect task exists only with auto-reconnect on, and only if the
\* discover task was not created by start() or the discover worker has ended
\* without connecting a device; the two workers never run at the same time;
\* and when the discover task was created with auto-reconnect on, then, unless
\* stop() is called, the discovery connects a device or the reconnect task is
\* created.
C23_ReconnectAfterDiscovery ==
    /\ [](task["reconnect"].state # "none"
            => /\ svc.auto_reconnect
               /\ \/ ~svc.discover_scheduled
                  \/ task["discover"].state = "done" /\ ~svc.connected_any)
    /\ [](~(task["reconnect"].state = "running" /\ task["discover"].state = "running"))
    /\ (svc.discover_scheduled /\ svc.auto_reconnect)
          ~> \/ task["reconnect"].state # "none"
             \/ svc.connected_any
             \/ svc.phase # "running"

\* The discover worker has ended without connecting a device and the
\* reconnect task it created is running.
C23_Witness ==
    /\ svc.discover_scheduled
    /\ task["discover"].state = "done"
    /\ ~svc.connected_any
    /\ task["reconnect"].state = "running"
    /\ svc.phase = "running"

\* C24: the reconnect worker sends no status request to a device and changes
\* no stored status.
C24_ReconnectKeepsStatus ==
    \A a \in RegAddrs :
        /\ "reconnect" \notin dev[a].requested_by
        /\ "reconnect" \notin dev[a].stored_by

\* C25: once stop() has returned neither worker task is running, every handle
\* that was registered has been disconnected, and the handle map and the
\* primary-address map are empty.
C25_StoppedIsClean ==
    svc.phase = "stopped"
        => /\ \A w \in Workers : task[w].state # "running"
           /\ \A i \in DOMAIN handles : handles[i].state = "disconnected"
           /\ \A p \in Kinds \X RegAddrs : reg_devices[p] = 0
           /\ \A k \in Kinds : reg_addresses[k] = NoAddr

\* stop() has returned after cancelling a reconnect task that the discover
\* worker had created, and after disconnecting a handle.
C25_Witness ==
    /\ svc.phase = "stopped"
    /\ svc.discover_scheduled
    /\ task["discover"].state = "done"
    /\ task["reconnect"].state = "cancelled"
    /\ handles # <<>>

-----------------------------------------------------------------------------
(* Head-dose frame round trip                                              *)

\* C31: for every weekday mask in 0..127 and every volume in 0..65535, the
\* weekday-mask byte of the frame built by create_head_dose_command equals
\* the requested mask, and its volume field (one byte in mode 0x1B, two
\* bytes big-endian in mode 0x1C) equals the requested volume.
C31_HeadDoseRoundTrip ==
    (/\ codec_in.op = "head_dose"
     /\ codec_in.volume_tenths_ml \in 0..65535
     /\ codec_in.weekday_mask \in 0..127)
    => LET f == codec_out.ret.frame
       IN  /\ codec_out.ret.err = "none"
           /\ f[8] = codec_in.weekday_mask
           /\ f[6] = 27 => f[12] = codec_in.volume_tenths_ml
           /\ f[6] = 28 => f[12] * 256 + f[13] = codec_in.volume_tenths_ml

-----------------------------------------------------------------------------
(* The light status decoder                                                *)

\* C32: for every 0xFE light payload of at least 9 bytes starting with 0x5B,
\* the weekday, hour and minute fields of the LightStatus returned by
\* parse_light_payload equal payload bytes 6, 7 and 8 (the header clock),
\* whatever keyframe bytes follow.
C32_HeaderClockReturned ==
    (/\ codec_in.op = "light_payload"
     /\ Len(codec_in.payload) >= 9
     /\ codec_in.payload[1] = 91)
    => /\ codec_out.status.weekday = codec_in.payload[7]
       /\ codec_out.status.hour = codec_in.payload[8]
       /\ codec_out.status.minute = codec_in.payload[9]

\* The scan the specification describes, over the bytes b from 0-based
\* position i: a 4-byte group starting 0x00 0x02 is a time marker, a (0,0,0)
\* triple is skipped, any other triple is a keyframe, and the scan ends at
\* the first keyframe earlier than the previous one (last, -1 at the start)
\* or when fewer than 3 bytes remain.
RECURSIVE C36_Scan(_, _, _, _)
C36_Scan(b, i, last, acc) ==
    IF Len(b) - i >= 4 /\ b[i + 1] = 0 /\ b[i + 2] = 2
    THEN C36_Scan(b, i + 4, last,
                  [acc EXCEPT !.time_markers = Append(@, <<b[i + 3], b[i + 4]>>)])
    ELSE IF Len(b) - i < 3 THEN acc
    ELSE IF <<b[i + 1], b[i + 2], b[i + 3]>> = <<0, 0, 0>> THEN C36_Scan(b, i + 3, last, acc)
    ELSE IF b[i + 1] * 60 + b[i + 2] < last THEN acc
    ELSE C36_Scan(b, i + 3, b[i + 1] * 60 + b[i + 2],
                  [acc EXCEPT !.keyframes =
                       Append(@, [hour |-> b[i + 1], minute |-> b[i + 2], value |-> b[i + 3]])])

\* C36: for every 0xFE light payload, the keyframes and time markers
\* returned by parse_light_payload equal those of the reference scan over
\* the bytes between the 9-byte header and the 5-byte tail.
C36_ReferenceScan ==
    (/\ codec_in.op = "light_payload"
     /\ Len(codec_in.payload) >= 14
     /\ codec_in.payload[1] = 91)
    => LET between == SubSeq(codec_in.payload, 10, Len(codec_in.payload) - 5)
           ref == C36_Scan(between, 0, 0 - 1, [keyframes |-> <<>>, time_markers |-> <<>>])
       IN  /\ codec_out.status.keyframes = ref.keyframes
           /\ codec_out.status.time_markers = ref.time_markers

\* C40: in every LightStatus returned by parse_light_payload the keyframes
\* are in non-decreasing order of hour*60+minute, and no keyframe is the
\* all-zero triple (0,0,0).
C40_KeyframesOrdered ==
    codec_in.op = "light_payload" =>
        LET k == codec_out.status.keyframes
        IN  /\ \A i \in 1..(Len(k) - 1) :
                  k[i].hour * 60 + k[i].minute <= k[i + 1].hour * 60 + k[i + 1].minute
            /\ \A i \in 1..Len(k) : <<k[i].hour, k[i].minute, k[i].value>> # <<0, 0, 0>>

\* A keyframe at 12:30, padding, then a keyframe at 08:00: the padding is
\* skipped and the scan ends at the earlier keyframe.
C40_Witness ==
    /\ codec_in.op = "light_payload"
    /\ codec_in.payload = <<91, 0, 1, 0, 7, 254, 7, 23, 59>>
                          \o <<12, 30, 100, 0, 0, 0, 8, 0, 10>> \o <<10, 20, 30, 40, 1>>
    /\ codec_out.status.keyframes = <<[hour |-> 12, minute |-> 30, value |-> 100]>>

-----------------------------------------------------------------------------
(* The frame encoder                                                       *)

\* The id reached from m by k steps of next_message_id.
RECURSIVE C34_Advance(_, _)
C34_Advance(m, k) == IF k = 0 THEN m ELSE next_message_id(C34_Advance(m, k - 1))

\* How many times the id was advanced to get the id the frame carries: the
\* least k <= 3 with that id k steps after the given one, and 4 if none.
C34_Reencodes ==
    LET used == <<codec_out.frame[4], codec_out.frame[5]>>
        ks == {k \in 0..3 : C34_Advance(codec_in.msg_id, k) = used}
    IN  IF ks = {} THEN 4 ELSE CHOOSE k \in ks : \A j \in ks : k <= j

\* C34: _encode_uart_command terminates for every valid message id and
\* non-empty parameter list, and re-encodes with an advanced message id at
\* most twice before producing a frame whose checksum is not 90.
C34_AtMostTwoReencodes ==
    (/\ codec_in.op = "encode_uart"
     /\ ValidMsgId(codec_in.msg_id)
     /\ Len(codec_in.params) > 0)
    => /\ C34_Reencodes <= 2
       /\ codec_out.frame[Len(codec_out.frame)] # 90

\* An input that is re-encoded twice.
C34_Witness ==
    /\ codec_in.op = "encode_uart"
    /\ ValidMsgId(codec_in.msg_id)
    /\ C34_Reencodes = 2

\* The XOR of the bytes s[from..to].
RECURSIVE C35_Xor(_, _, _)
C35_Xor(s, from, to) == IF from > to THEN 0 ELSE Xor(s[from], C35_Xor(s, from + 1, to))

\* The check byte of the frame for id m: the XOR of 0x01, n+5, the id, the
\* mode and the parameters with 90 replaced by 89.
C35_CheckByte(mode, m, params) ==
    LET p == [i \in 1..Len(params) |-> IF params[i] = 90 THEN 89 ELSE params[i]]
        body == <<1, Len(params) + 5, m[1], m[2], mode>> \o p
    IN  C35_Xor(body, 1, Len(body))

\* C35: for every cmd_id, mode, valid message id and non-empty parameter
\* list, the frame returned by _encode_uart_command equals
\* [cmd_id, 0x01, n+5, hi, lo, mode, p1..pn, x], where n is the number of
\* parameters, each pi is the parameter with 90 replaced by 89, (hi, lo) is
\* the first id at or after the given one in next_message_id order for which
\* x is not 90, and x is the XOR of all bytes from index 1 up to the last
\* parameter.
C35_FrameLayout ==
    (/\ codec_in.op = "encode_uart"
     /\ ValidMsgId(codec_in.msg_id)
     /\ Len(codec_in.params) > 0)
    => LET f == codec_out.frame
           n == Len(codec_in.params)
           k == C34_Reencodes
       IN  /\ Len(f) = n + 7
           /\ f[1] = codec_in.cmd_id /\ f[2] = 1 /\ f[3] = n + 5
           /\ f[6] = codec_in.mode
           /\ \A i \in 1..n :
                 f[6 + i] = IF codec_in.params[i] = 90 THEN 89 ELSE codec_in.params[i]
           /\ f[n + 7] = C35_Xor(f, 2, n + 6)
           /\ f[n + 7] # 90
           /\ k <= 3
           /\ \A j \in 0..(k - 1) :
                 C35_CheckByte(codec_in.mode, C34_Advance(codec_in.msg_id, j),
                               codec_in.params) = 90

\* A frame with a parameter 90 sent as 89, built with the id after the given
\* one.
C35_Witness ==
    /\ codec_in.op = "encode_uart"
    /\ codec_in.params = <<90>>
    /\ codec_out.frame[7] = 89
    /\ C34_Reencodes = 1

-----------------------------------------------------------------------------
(* The message ids of one set_daily_dose sequence                          *)

\* The id carried by a frame.
C33_Id(frame) == <<frame[4], frame[5]>>

\* C33: the message ids carried by the 8 frames of one set_daily_dose
\* sequence are pairwise distinct and appear in next_message_id order (each
\* id is one to three steps after the id of the frame before it), also when
\* a frame is re-encoded with a bumped id because its checksum came out as
\* 90.
C33_DistinctOrderedIds ==
    (codec_in.op = "set_daily_dose" /\ codec_out.ret.err = "none")
    => LET f == codec_out.ret.frames
       IN  /\ Len(f) = 8
           /\ \A i, j \in 1..8 : i # j => C33_Id(f[i]) # C33_Id(f[j])
           /\ \A i \in 1..7 :
                 \E k \in 1..3 : C34_Advance(C33_Id(f[i]), k) = C33_Id(f[i + 1])

-----------------------------------------------------------------------------
(* The status a refresh or connect returns                                 *)

\* C37: the status returned by a status refresh or connect was decoded from
\* a notification that arrived after that call's status request was sent: a
\* call never returns, or persists with a new timestamp, a last_status left
\* over from an earlier request.
C37_StatusAnswersRequest ==
    /\ \A c \in CapCallers :
          (cap_call[c].pc = "done" /\ cap_call[c].status.present)
              => cap_call[c].status.after >= cap_call[c].asked
    /\ \A a \in CapAddrs :
          cap_file[a].present => cap_file[a].after >= cap_file[a].asked

-----------------------------------------------------------------------------
(* What a failed _ensure_device leaves behind                              *)

\* The results with which _ensure_device ends in an error or is cancelled.
C39_Errors == {"not_found", "wrong_type", "cancelled"}

\* C39: an ensure_device call that ends in an error (address not resolved
\* after the retries, unsupported kind, or kind mismatch) or is cancelled
\* leaves the registry unchanged: no step of the call other than the one
\* that returns a handle changes the handle map, the primary addresses or a
\* handle, and when the call has ended it does not hold the registry lock.
C39_FailedEnsureLeavesRegistry ==
    [][\A t \in Callers :
          (/\ reg_call'[t].op = "ensure"
           /\ reg_call'[t].pc # reg_call[t].pc
           /\ reg_call'[t].result # "handle")
          => /\ reg_devices' = reg_devices
             /\ reg_addresses' = reg_addresses
             /\ \A i \in DOMAIN handles : handles'[i] = handles[i]
             /\ (reg_call'[t].result \in C39_Errors => reg_lock' # t)]_vars

\* A call has given up after its last attempt, the lock is free, and a
\* handle that was registered before is still registered and primary.
C39_Witness ==
    \E t \in Callers :
        /\ reg_call[t].op = "ensure" /\ reg_call[t].pc = "done"
        /\ reg_call[t].result = "not_found"
        /\ reg_call[t].failures = max_retries
        /\ reg_lock = 0
        /\ \E a \in RegAddrs : RegisteredFor(a) # 0 /\ reg_addresses["doser"] = a

-----------------------------------------------------------------------------
(* Every command returns                                                   *)

====
